---- MODULE Spec2Model ----
(***************************************************************************)
(* Set card game (YellowYak/set-tools): the shared multiplayer Game        *)
(* record of lobby.js / multi-play.js and the Set-matching engine of       *)
(* set-logic.js.  Every write to /games/{gameId} is one action; a          *)
(* runTransaction transform is applied atomically to the latest value.     *)
(***************************************************************************)
EXTENDS Integers, Sequences, FiniteSets, TLC

\* ---------------------------------------------------------------- constants
DeckSize      == 81      \* number of cards, Array(81)
BaseBoardSize == 12      \* initial deal and in-place replacement threshold
DealSize      == 3       \* cards added per extra deal

\* ------------------------------------------------------------------- bounds
NumShuffles == 3         \* shuffles the host's createGame can draw
MaxLag      == 1         \* commits a submitted transaction may be overtaken by
MaxChoice   == 2         \* sets of findAllSets a player picks from ...
BranchDepth == 1         \* ... during the first BranchDepth claims
MaxPending  == 2         \* transactions in flight at the same time ...
RaceDepth   == 2         \* ... during the first RaceDepth claims and once the
                         \* deck is exhausted; one at a time in between

Null == "null"
None == << >>       \* no value yet, where the value is not a string

\* ------------------------------------------------------------------ deck.js
COLORS == <<"red", "green", "purple">>
SHAPES == <<"oval", "diamond", "squiggle">>
COUNTS == <<1, 2, 3>>
FILLS  == <<"solid", "striped", "open">>

\* createDeck with the loops nested the other way round, fill outermost
createDeckFillMajor ==
  LET colors(fill, count, shape) ==
        [c \in 1..3 |-> [color |-> COLORS[c], shape |-> shape,
                         count |-> count, fill |-> fill]]
      shapes(fill, count) ==
        colors(fill, count, SHAPES[1]) \o colors(fill, count, SHAPES[2])
          \o colors(fill, count, SHAPES[3])
      counts(fill) ==
        shapes(fill, COUNTS[1]) \o shapes(fill, COUNTS[2])
          \o shapes(fill, COUNTS[3])
  IN  counts(FILLS[1]) \o counts(FILLS[2]) \o counts(FILLS[3])

\* createDeck(): four nested loops, color outermost and fill innermost, each
\* pushing one card; deck[i] of the code is createDeck[i + 1] here
createDeck ==
  LET fills(color, shape, count) ==
        [f \in 1..3 |-> [color |-> color, shape |-> shape, count |-> count,
                         fill |-> FILLS[f]]]
      counts(color, shape) ==
        fills(color, shape, COUNTS[1]) \o fills(color, shape, COUNTS[2])
          \o fills(color, shape, COUNTS[3])
      shapes(color) ==
        counts(color, SHAPES[1]) \o counts(color, SHAPES[2])
          \o counts(color, SHAPES[3])
  IN  shapes(COLORS[1]) \o shapes(COLORS[2]) \o shapes(COLORS[3])

CANONICAL_DECK == createDeck

\* ------------------------------------------------------------- set-logic.js
\* featureValid whose all-different test leaves out the outer pair
featureValidAdjacentOnly(a, b, c) ==
  LET allSame == (a = b /\ b = c)
      allDiff == (a # b /\ b # c)
  IN  allSame \/ allDiff

featureValid(a, b, c) ==
  LET allSame == (a = b /\ b = c)
      allDiff == (a # b /\ b # c /\ a # c)
  IN  allSame \/ allDiff

\* isSet that does not look at the fill
isSetWithoutFill(a, b, c) ==
  /\ featureValid(a.color, b.color, c.color)
  /\ featureValid(a.shape, b.shape, c.shape)
  /\ featureValid(a.count, b.count, c.count)

isSet(a, b, c) ==
  /\ featureValid(a.color, b.color, c.color)
  /\ featureValid(a.shape, b.shape, c.shape)
  /\ featureValid(a.count, b.count, c.count)
  /\ featureValid(a.fill,  b.fill,  c.fill)

\* triplets(cards): index triples i < j < k (0-based) in the order the three
\* nested loops yield them
tripletsK(n, i, j) == [x \in 1..(n - 1 - j) |-> <<i, j, j + x>>]

\* a middle loop that stops one card early
RECURSIVE tripletsJSkipsLast(_, _, _)
tripletsJSkipsLast(n, i, j) ==
  IF j < n - 2
  THEN tripletsK(n, i, j) \o tripletsJSkipsLast(n, i, j + 1)
  ELSE << >>

RECURSIVE tripletsJ(_, _, _)
tripletsJ(n, i, j) ==
  IF j < n - 1 THEN tripletsK(n, i, j) \o tripletsJ(n, i, j + 1) ELSE << >>

RECURSIVE tripletsI(_, _)
tripletsI(n, i) ==
  IF i < n - 2 THEN tripletsJ(n, i, i + 1) \o tripletsI(n, i + 1) ELSE << >>

\* the triples of the boards a game can show are computed once
MaxBoard == 21
tripletsOfBoards == [n \in 0..MaxBoard |-> tripletsI(n, 0)]

triplets(n) == IF n <= MaxBoard THEN tripletsOfBoards[n] ELSE tripletsI(n, 0)

\* cards are given as a sequence of Card records; positions are 0-based
cardAt(cards, pos) == cards[pos + 1]

isSetAt(cards, t) ==
  isSet(cardAt(cards, t[1]), cardAt(cards, t[2]), cardAt(cards, t[3]))

\* findAllSets that returns after the first match
findAllSetsFirstOnly(cards) ==
  LET all == SelectSeq(triplets(Len(cards)), LAMBDA t : isSetAt(cards, t))
  IN  IF all = << >> THEN << >> ELSE <<all[1]>>

\* findAllSets(cards), as the position triples of the returned triplets
findAllSets(cards) ==
  SelectSeq(triplets(Len(cards)), LAMBDA t : isSetAt(cards, t))

\* hasSet whose loops all run over every position
hasSetAnyThree(cards) ==
  \E i \in 0..(Len(cards) - 1) :
    \E j \in 0..(Len(cards) - 1) :
      \E k \in 0..(Len(cards) - 1) :
        isSet(cardAt(cards, i), cardAt(cards, j), cardAt(cards, k))

\* hasSet(cards): same enumeration, stops at the first match
hasSet(cards) ==
  \E i \in 0..(Len(cards) - 3) :
    \E j \in (i + 1)..(Len(cards) - 2) :
      \E k \in (j + 1)..(Len(cards) - 1) :
        isSet(cardAt(cards, i), cardAt(cards, j), cardAt(cards, k))

\* board.map(i => CANONICAL_DECK[i])
boardCards(b) == [n \in 1..Len(b) |-> CANONICAL_DECK[b[n] + 1]]

\* ---------------------------------------------------------------- shuffles
DeckA ==
  <<72, 50, 26, 21, 70, 19, 38, 65, 69, 43, 2, 80, 27, 30, 33, 42, 29, 1,
    37, 45, 74, 36, 44, 41, 60, 6, 67, 7, 47, 55, 14, 58, 76, 51, 3, 59,
    79, 11, 48, 46, 71, 17, 75, 13, 31, 57, 66, 40, 49, 34, 35, 32, 15,
    28, 56, 16, 25, 77, 4, 22, 5, 39, 0, 61, 68, 63, 54, 52, 18, 73, 10,
    12, 23, 20, 24, 9, 64, 8, 62, 78, 53>>

DeckB ==
  <<4, 3, 45, 54, 27, 5, 74, 20, 29, 71, 33, 14, 21, 58, 75, 69, 40, 30, 50,
    18, 44, 63, 23, 61, 57, 78, 48, 10, 64, 51, 56, 16, 65, 80, 9, 2, 6, 36,
    38, 55, 76, 47, 67, 19, 37, 70, 0, 13, 53, 79, 66, 24, 41, 26, 8, 49,
    46, 60, 32, 28, 68, 35, 77, 22, 62, 59, 7, 73, 12, 31, 17, 15, 52, 1,
    42, 39, 11, 43, 34, 25, 72>>

DeckC ==
  <<46, 19, 78, 30, 45, 51, 27, 72, 70, 13, 48, 34, 22, 63, 42, 74, 43,
    21, 67, 58, 31, 32, 57, 1, 0, 44, 69, 9, 54, 5, 65, 8, 73, 10, 47, 6,
    50, 25, 41, 36, 59, 28, 40, 14, 77, 4, 7, 75, 61, 26, 56, 79, 38, 37,
    12, 71, 2, 64, 20, 24, 17, 76, 52, 49, 35, 80, 3, 29, 11, 33, 62, 68,
    53, 23, 39, 18, 55, 15, 60, 66, 16>>

\* shuffle([...Array(81).keys()]): Fisher-Yates can return any permutation;
\* the s-th permutation drawn here
shuffle(s) ==
  IF s = 1 THEN DeckA
  ELSE IF s = 2 THEN DeckB
  ELSE IF s = 3 THEN DeckC
  ELSE [i \in 1..DeckSize |-> DeckB[((i - 1 + 3 * (s - 3)) % DeckSize) + 1]]

\* arr.slice(from, to) on a 0-based array held as a sequence
slice(arr, from, to) ==
  IF to <= from THEN << >> ELSE SubSeq(arr, from + 1, to)

min(a, b) == IF a < b THEN a ELSE b

\* ------------------------------------------------------------------- state
Host    == "h"
Clients == {"h", "a", "b"}

VARIABLES
  status,           \* "waiting" | "playing" | "finished"
  maxPlayers,
  hostId,
  shuffledIndices,  \* permutation of 0..80, written once by createGame
  deckPointer,
  board,            \* sequence of canonical indices
  players,          \* playerId -> [score]
  startedAt,
  finishedAt,
  winnerId,
  page,             \* per client: "lobby" | "waiting" | "play"
  startBtnEnabled,  \* host's Start button as last rendered
  pending,          \* per client: claim transaction in flight
  busy,             \* per client: the busy flag of multi-play.js
  dealing,          \* per client: replenish-only transaction in flight
  lastTx            \* the runTransaction call that settled last

\* play.js runs on a page of its own: under SpecSolo, board and busy hold
\* the variables of that name of play.js
VARIABLES
  gameMode,               \* "solo" | "vs-computer"
  deck,                   \* remaining undealt cards, popped from the end
  selected,               \* positions of the selected cards, in click order
  score,
  computerScore,
  computerTimerHandle,    \* Null or the handle of the last computer timeout
  computerTimerDeadline,  \* 0 or the time the computer's timer was set for
  computerPauseRemaining, \* 0 or the time left on the timer when paused
  paused,
  hintStep,
  hintSetIndices,
  timerInterval,          \* Null or the handle of the clock's interval
  modalMode,              \* mode dialog: "shown" | "hidden"
  modalOverlay,           \* game-over dialog: "shown" | "hidden"
  computerTimer,          \* the browser's pending computerTakesSet timeout
  flights,                \* pending flyCardsToScore callbacks, oldest first
  replenishing,           \* pending ensureSetOnBoard timeouts, oldest first
  flashes                 \* pending handleError timeouts

\* the arguments and return values of the set-logic.js search functions
VARIABLES
  allCards,               \* << >> or the array returned by createDeck()
  cards,                  \* the array passed to findAllSets and hasSet
  results,                \* None or <<the array findAllSets(cards) returned>>
  anySet                  \* None or <<the value hasSet(cards) returned>>

\* the penalty of multi-play.js on one client's page: under SpecPenalty,
\* busy, selected, timerInterval and modalOverlay hold the variables of that
\* name of multi-play.js, and status and board the client's gameState
VARIABLES
  nextPenaltySecs,        \* seconds of the next penalty
  penaltyTimerHandle,     \* Null or the handle of the countdown's interval
  remaining,              \* tenths of a second left on the countdown
  penalized,              \* the board element has class board--penalized
  penaltyOverlay,         \* penalty overlay: "shown" | "hidden"
  penaltyBar,             \* countdown banner: "shown" | "hidden"
  cutoffs                 \* pending setTimeout(clearPenalty) calls

\* joinGame's runTransaction call in flight, under SpecJoin
VARIABLES
  joining                 \* per client: the flags and the last evaluation

record == <<status, maxPlayers, hostId, shuffledIndices, deckPointer, board,
            players, startedAt, finishedAt, winnerId>>
local  == <<page, startBtnEnabled, pending, busy, dealing, lastTx>>
solo   == <<gameMode, deck, selected, score, computerScore,
            computerTimerHandle, computerTimerDeadline,
            computerPauseRemaining, paused, hintStep, hintSetIndices,
            timerInterval, modalMode, modalOverlay, computerTimer, flights,
            replenishing, flashes>>
search == <<allCards, cards, results, anySet>>
penalty == <<nextPenaltySecs, penaltyTimerHandle, remaining, penalized,
             penaltyOverlay, penaltyBar, cutoffs>>
elsewhere == <<solo, search, penalty, joining>>
vars   == <<record, local, solo, search, penalty, joining>>

Stamp == "stamped"   \* a Date.now() value

\* a claim in flight: the positions submitted, and the cards the client's
\* board showed at these positions when they were selected
NoClaim == [active |-> FALSE, positions |-> << >>, cards |-> << >>,
            lag |-> 0, raced |-> FALSE]
NoDeal  == [active |-> FALSE, lag |-> 0]
NoTx    == [op |-> "none", committed |-> FALSE, reason |-> Null]

totalScore == LET RECURSIVE sum(_)
                  sum(S) == IF S = {} THEN 0
                            ELSE LET p == CHOOSE x \in S : TRUE
                                 IN  players[p].score + sum(S \ {p})
              IN  sum(DOMAIN players)

\* how many transactions the arbitration service holds at once
racing == totalScore < RaceDepth \/ deckPointer >= DeckSize
maxInFlight == IF racing THEN MaxPending ELSE 1

\* exploration bounds on page loads: newcomers try to join before and right
\* after the start, a spectator loads the board page in the endgame, one
\* player at a time goes back to the lobby, and play starts once every
\* player's waiting room has redirected
newcomersJoin == status = "waiting" \/ totalScore < RaceDepth
spectatorsLoad == status = "playing" /\ deckPointer >= DeckSize
othersOnBoard(c) == \A d \in DOMAIN players \ {c} : page[d] = "play"
allRedirected == \A d \in DOMAIN players : page[d] = "play"
\* exploration bound on failed arbitration calls: during the first claims
failuresExplored == totalScore < RaceDepth
\* exploration bound on dropped connections: a guest's before the start,
\* anyone's after the end of the game
disconnectsExplored(c) ==
  (status = "waiting" /\ c # hostId) \/ status = "finished"

\* play.js as loaded, before a mode is chosen: its module-level
\* initialisers and showModeModal()
soloLoaded ==
  /\ gameMode = "solo"
  /\ deck = << >>
  /\ selected = << >>
  /\ score = 0
  /\ computerScore = 0
  /\ computerTimerHandle = Null
  /\ computerTimerDeadline = 0
  /\ computerPauseRemaining = 0
  /\ paused = FALSE
  /\ hintStep = 0
  /\ hintSetIndices = None
  /\ timerInterval = Null
  /\ modalMode = "shown"
  /\ modalOverlay = "hidden"
  /\ computerTimer = "none"
  /\ flights = << >>
  /\ replenishing = << >>
  /\ flashes = 0

\* no joinGame call is under way
NoJoin == [active |-> FALSE, alreadyInGame |-> FALSE, rejectionReason |-> Null,
           seen |-> << >>, result |-> << >>]

joinIdle == joining = [c \in Clients |-> NoJoin]

\* multi-play.js as loaded: no penalty has been applied
penaltyIdle ==
  /\ nextPenaltySecs = 2
  /\ penaltyTimerHandle = Null
  /\ remaining = 0
  /\ penalized = FALSE
  /\ penaltyOverlay = "hidden"
  /\ penaltyBar = "hidden"
  /\ cutoffs = 0

\* no search function has been called
searchIdle ==
  /\ allCards = << >>
  /\ cards = << >>
  /\ results = None
  /\ anySet = None

\* --------------------------------------------------------------- createGame
\* the entry written for a player by createGame and joinGame
NewPlayer == [score |-> 0, connected |-> TRUE]

RECURSIVE createGameDeal(_, _, _)
createGameDeal(shuffled, b, ptr) ==
  IF ~hasSet(boardCards(b)) /\ ptr < DeckSize
  THEN LET toAdd == min(DealSize, DeckSize - ptr)
       IN  createGameDeal(shuffled, b \o slice(shuffled, ptr, ptr + toAdd),
                          ptr + toAdd)
  ELSE [board |-> b, deckPointer |-> ptr]

MaxPlayersChoices == {2}

Init ==
  \E s \in 1..NumShuffles, mp \in MaxPlayersChoices :
    LET shuffled == shuffle(s)
        dealt    == createGameDeal(shuffled, slice(shuffled, 0, BaseBoardSize),
                                   BaseBoardSize)
    IN  /\ status = "waiting"
        /\ maxPlayers = mp
        /\ hostId = Host
        /\ shuffledIndices = shuffled
        /\ deckPointer = dealt.deckPointer
        /\ board = dealt.board
        /\ players = [p \in {Host} |-> NewPlayer]
        /\ startedAt = Null
        /\ finishedAt = Null
        /\ winnerId = Null
        /\ page = [c \in Clients |-> IF c = Host THEN "waiting" ELSE "lobby"]
        /\ startBtnEnabled = FALSE
        /\ pending = [c \in Clients |-> NoClaim]
        /\ busy = [c \in Clients |-> FALSE]
        /\ dealing = [c \in Clients |-> NoDeal]
        /\ lastTx = NoTx
        /\ soloLoaded
        /\ penaltyIdle
        /\ joinIdle
        /\ searchIdle

\* ----------------------------------------------------------- lobby: joinGame
\* joinTransform without the seat count
joinTransformNoSeatCheck(pid) ==
  IF pid \in DOMAIN players
  THEN [committed |-> TRUE, alreadyInGame |-> TRUE, reason |-> Null,
        players |-> players]
  ELSE IF status # "waiting"
  THEN [committed |-> FALSE, alreadyInGame |-> FALSE, reason |-> "started",
        players |-> players]
  ELSE [committed |-> TRUE, alreadyInGame |-> FALSE, reason |-> Null,
        players |-> [p \in DOMAIN players \cup {pid} |->
                       IF p = pid THEN NewPlayer ELSE players[p]]]

\* joinTransform with the seat count tested before the status
joinTransformSeatsFirst(pid) ==
  IF pid \in DOMAIN players
  THEN [committed |-> TRUE, alreadyInGame |-> TRUE, reason |-> Null,
        players |-> players]
  ELSE IF Cardinality(DOMAIN players) >= maxPlayers
  THEN [committed |-> FALSE, alreadyInGame |-> FALSE, reason |-> "full",
        players |-> players]
  ELSE IF status # "waiting"
  THEN [committed |-> FALSE, alreadyInGame |-> FALSE, reason |-> "started",
        players |-> players]
  ELSE [committed |-> TRUE, alreadyInGame |-> FALSE, reason |-> Null,
        players |-> [p \in DOMAIN players \cup {pid} |->
                       IF p = pid THEN NewPlayer ELSE players[p]]]

\* the transform joinGame hands to runTransaction, for the player pid
joinTransform(pid) ==
  IF pid \in DOMAIN players
  THEN \* already registered: reconnect, currentData is returned as it is
       [committed |-> TRUE, alreadyInGame |-> TRUE, reason |-> Null,
        players |-> players]
  ELSE IF status # "waiting"
  THEN [committed |-> FALSE, alreadyInGame |-> FALSE, reason |-> "started",
        players |-> players]
  ELSE IF Cardinality(DOMAIN players) >= maxPlayers
  THEN [committed |-> FALSE, alreadyInGame |-> FALSE, reason |-> "full",
        players |-> players]
  ELSE [committed |-> TRUE, alreadyInGame |-> FALSE, reason |-> Null,
        players |-> [p \in DOMAIN players \cup {pid} |->
                       IF p = pid THEN NewPlayer ELSE players[p]]]

\* joinGame: the transaction settles with outcome r.  On the reconnect path
\* the player's entry is marked connected; a player that is in the game
\* afterwards enters the waiting room, a rejected one stays in the lobby
settleJoin(c, r) ==
  /\ players' = (IF r.alreadyInGame
                 THEN [r.players EXCEPT ![c].connected = TRUE]
                 ELSE r.players)
  /\ page' = [page EXCEPT ![c] = IF r.committed THEN "waiting" ELSE "lobby"]
  /\ lastTx' = [NoTx EXCEPT !.op = "join", !.committed = r.committed,
                            !.reason = r.reason]

JoinGame(c) ==
  /\ page[c] = "lobby"
  /\ (c \in DOMAIN players \/ newcomersJoin)
  /\ settleJoin(c, joinTransform(c))
  /\ UNCHANGED <<status, maxPlayers, hostId, shuffledIndices, deckPointer,
                 board, startedAt, finishedAt, winnerId, startBtnEnabled,
                 pending, busy, dealing>>
  /\ UNCHANGED elsewhere

\* enterWaitingRoom's onValue listener: renderWaitingRoom, then the redirect
\* to multi-play.html once the game is playing
WaitingRoomSnapshot(c) ==
  /\ page[c] = "waiting"
  /\ LET ready == Cardinality(DOMAIN players) >= maxPlayers
         btn   == IF hostId = c THEN ready ELSE startBtnEnabled
         next  == IF status = "playing" THEN "play" ELSE "waiting"
     IN  /\ (btn # startBtnEnabled \/ next # page[c])
         /\ startBtnEnabled' = (IF next = "play" /\ hostId = c THEN FALSE
                                ELSE btn)
         /\ page' = [page EXCEPT ![c] = next]
  /\ UNCHANGED <<record, pending, busy, dealing, lastTx>>
  /\ UNCHANGED elsewhere

\* startGame(gameId), reachable through the host's enabled Start button
StartGame(c) ==
  /\ page[c] = "waiting"
  /\ hostId = c
  /\ startBtnEnabled
  /\ startBtnEnabled' = FALSE
  /\ status' = "playing"
  /\ startedAt' = Stamp
  /\ UNCHANGED <<maxPlayers, hostId, shuffledIndices, deckPointer, board,
                 players, finishedAt, winnerId, page, pending, busy,
                 dealing, lastTx>>
  /\ UNCHANGED elsewhere

\* leaveGame(gameId), reachable through the waiting room's Leave button:
\* the player's entry is removed and the entry panel is shown
LeaveGame(c) ==
  /\ page[c] = "waiting"
  /\ players' = [p \in DOMAIN players \ {c} |-> players[p]]
  /\ page' = [page EXCEPT ![c] = "lobby"]
  /\ startBtnEnabled' = (IF hostId = c THEN FALSE ELSE startBtnEnabled)
  /\ UNCHANGED <<status, maxPlayers, hostId, shuffledIndices, deckPointer,
                 board, startedAt, finishedAt, winnerId, pending, busy,
                 dealing, lastTx>>
  /\ UNCHANGED elsewhere

\* the connection of a player's tab drops: the onDisconnect hook joinGame
\* and createGame registered marks the player's entry as not connected
Disconnect(c) ==
  /\ c \in DOMAIN players
  /\ page[c] \in {"waiting", "play"}
  /\ disconnectsExplored(c)
  /\ ~pending[c].active
  /\ ~dealing[c].active
  /\ players' = [players EXCEPT ![c].connected = FALSE]
  /\ page' = [page EXCEPT ![c] = "lobby"]
  /\ startBtnEnabled' = (IF hostId = c THEN FALSE ELSE startBtnEnabled)
  /\ UNCHANGED <<status, maxPlayers, hostId, shuffledIndices, deckPointer,
                 board, startedAt, finishedAt, winnerId, pending, busy,
                 dealing, lastTx>>
  /\ UNCHANGED elsewhere

\* the browser is pointed at lobby.html?game=<id>: a reload of the waiting
\* room, or a visit from the game-over screen
OpenLobby(c) ==
  /\ \/ page[c] = "waiting" /\ status = "waiting"
     \/ page[c] = "play" /\ status = "finished" /\ othersOnBoard(c)
  /\ ~pending[c].active
  /\ ~dealing[c].active
  /\ c \in DOMAIN players
  /\ page' = [page EXCEPT ![c] = "lobby"]
  /\ startBtnEnabled' = (IF hostId = c THEN FALSE ELSE startBtnEnabled)
  /\ UNCHANGED <<record, pending, busy, dealing, lastTx>>
  /\ UNCHANGED elsewhere

\* the browser is pointed at multi-play.html?game=<id>
OpenPlay(c) ==
  /\ page[c] = "lobby"
  /\ c \notin DOMAIN players
  /\ spectatorsLoad
  /\ page' = [page EXCEPT ![c] = "play"]
  /\ UNCHANGED <<record, startBtnEnabled, pending, busy, dealing, lastTx>>
  /\ UNCHANGED elsewhere

\* ------------------------------------------------- multi-play: claim a Set
Abort == [committed |-> FALSE]

\* the positions taken in the order they were selected
sortDescUnsorted(ps) == ps

\* [...positions].sort((a, b) => b - a) of three positions
sortDesc(ps) ==
  LET hi == CHOOSE x \in {ps[1], ps[2], ps[3]} :
              \A y \in {ps[1], ps[2], ps[3]} : y <= x
      lo == CHOOSE x \in {ps[1], ps[2], ps[3]} :
              \A y \in {ps[1], ps[2], ps[3]} : x <= y
      mid == CHOOSE n \in 1..3 : ps[n] # hi /\ ps[n] # lo
  IN  <<hi, ps[mid], lo>>

\* newBoard.splice(pos, 1)
splice(b, pos) == SubSeq(b, 1, pos) \o SubSeq(b, pos + 2, Len(b))

\* removeClaimed with a pointer that is read but not advanced
RECURSIVE removeClaimedStalePointer(_, _, _, _)
removeClaimedStalePointer(shuffled, sorted, newBoard, ptr) ==
  IF sorted = << >> THEN [board |-> newBoard, ptr |-> ptr]
  ELSE LET pos == Head(sorted)
       IN  IF ptr < DeckSize /\ Len(newBoard) <= BaseBoardSize
           THEN removeClaimedStalePointer(
                  shuffled, Tail(sorted),
                  [newBoard EXCEPT ![pos + 1] = shuffled[ptr + 1]], ptr)
           ELSE removeClaimedStalePointer(shuffled, Tail(sorted),
                                          splice(newBoard, pos), ptr)

\* removeClaimed that still replaces in place on a board one card above
\* base size
RECURSIVE removeClaimedAboveBase(_, _, _, _)
removeClaimedAboveBase(shuffled, sorted, newBoard, ptr) ==
  IF sorted = << >> THEN [board |-> newBoard, ptr |-> ptr]
  ELSE LET pos == Head(sorted)
       IN  IF ptr < DeckSize /\ Len(newBoard) <= BaseBoardSize + 1
           THEN removeClaimedAboveBase(
                  shuffled, Tail(sorted),
                  [newBoard EXCEPT ![pos + 1] = shuffled[ptr + 1]], ptr + 1)
           ELSE removeClaimedAboveBase(shuffled, Tail(sorted),
                                       splice(newBoard, pos), ptr)

\* for (const pos of sorted): replace in place while the board is at base
\* size and the deck has cards, else remove
RECURSIVE removeClaimed(_, _, _, _)
removeClaimed(shuffled, sorted, newBoard, ptr) ==
  IF sorted = << >> THEN [board |-> newBoard, ptr |-> ptr]
  ELSE LET pos == Head(sorted)
       IN  IF ptr < DeckSize /\ Len(newBoard) <= BaseBoardSize
           THEN removeClaimed(shuffled, Tail(sorted),
                              [newBoard EXCEPT ![pos + 1] = shuffled[ptr + 1]],
                              ptr + 1)
           ELSE removeClaimed(shuffled, Tail(sorted), splice(newBoard, pos),
                              ptr)

\* a claim that never deals extra cards
dealIfNoSetNever(shuffled, r) == r

\* if no set remains and the deck has cards, deal 3 more (once)
dealIfNoSet(shuffled, r) ==
  IF ~hasSet(boardCards(r.board)) /\ r.ptr < DeckSize
  THEN LET toAdd == min(DealSize, DeckSize - r.ptr)
       IN  [board |-> r.board \o slice(shuffled, r.ptr, r.ptr + toAdd),
            ptr   |-> r.ptr + toAdd]
  ELSE r

\* a winner loop in which a later player with the top score takes the win
RECURSIVE winnerLoopLastLeaderWins(_, _, _, _)
winnerLoopLastLeaderWins(order, ps, maxScore, winner) ==
  IF order = << >> THEN winner
  ELSE LET pid   == Head(order)
           pScore == ps[pid].score
       IN  IF pScore >= maxScore
           THEN winnerLoopLastLeaderWins(Tail(order), ps, pScore, pid)
           ELSE winnerLoopLastLeaderWins(Tail(order), ps, maxScore, winner)

\* the winner loop over Object.entries(players), visited in the given order
RECURSIVE winnerLoop(_, _, _, _)
winnerLoop(order, ps, maxScore, winner) ==
  IF order = << >> THEN winner
  ELSE LET pid   == Head(order)
           pScore == ps[pid].score
       IN  IF pScore > maxScore
           THEN winnerLoop(Tail(order), ps, pScore, pid)
           ELSE IF pScore = maxScore
           THEN winnerLoop(Tail(order), ps, maxScore, Null)
           ELSE winnerLoop(Tail(order), ps, maxScore, winner)

computeWinner(order, ps) == winnerLoop(order, ps, -1, Null)

\* the orders in which Object.entries can list the players
Orders(S) ==
  {o \in [1..Cardinality(S) -> S] : \A x \in S : \E n \in DOMAIN o : o[n] = x}

\* game over as soon as the deck is exhausted
gameOverIgnoresBoard(b, ptr) == ptr >= DeckSize

\* game over: deck exhausted and no sets left
gameOver(b, ptr) == ptr >= DeckSize /\ ~hasSet(boardCards(b))

\* what the transform returns once the claim is accepted
claimResult(pid, dealt, over) ==
  [committed   |-> TRUE,
   players     |-> [players EXCEPT ![pid].score = @ + 1],
   board       |-> dealt.board,
   deckPointer |-> dealt.ptr,
   status      |-> IF over THEN "finished" ELSE status,
   finishedAt  |-> IF over THEN Stamp ELSE finishedAt]

claimDealt(pid, dealt) ==
  claimResult(pid, dealt, gameOver(dealt.board, dealt.ptr))

\* claimTransform without the check that the claimant is a player
claimTransformNoPlayerGuard(pid, positions) ==
  IF status # "playing" THEN Abort
  ELSE IF \E n \in 1..3 : positions[n] < 0 \/ positions[n] >= Len(board)
  THEN Abort
  ELSE IF ~isSetAt(boardCards(board), positions) THEN Abort
  ELSE claimDealt(pid, dealIfNoSet(shuffledIndices,
                                   removeClaimed(shuffledIndices,
                                                 sortDesc(positions), board,
                                                 deckPointer)))

\* the transform attemptClaimSet hands to runTransaction, applied to the
\* current record for the player pid (the winner loop is run by the caller
\* of this operator, once per order of Object.entries)
claimTransform(pid, positions) ==
  IF status # "playing" THEN Abort
  ELSE IF \E n \in 1..3 : positions[n] < 0 \/ positions[n] >= Len(board)
  THEN Abort
  ELSE IF ~isSetAt(boardCards(board), positions) THEN Abort
  ELSE IF pid \notin DOMAIN players THEN Abort
  ELSE claimDealt(pid, dealIfNoSet(shuffledIndices,
                                   removeClaimed(shuffledIndices,
                                                 sortDesc(positions), board,
                                                 deckPointer)))

inFlight == Cardinality({c \in Clients : pending[c].active})
              + Cardinality({c \in Clients : dealing[c].active})

overlap(ps, qs) == \E m \in 1..3, n \in 1..3 : ps[m] = qs[n]

\* a commit by client c overtakes every transaction still in flight; a claim
\* overtaken for the first time by a claim on some of its own positions has
\* lost the race for the board both were selected on
overtakenClaims(c, claimed) ==
  [d \in Clients |->
     IF d # c /\ pending[d].active
     THEN [pending[d] EXCEPT
             !.lag = @ + 1,
             !.raced = (pending[d].lag = 0 /\ claimed # << >>
                        /\ overlap(pending[d].positions, claimed))]
     ELSE pending[d]]

overtakenDeals(c) ==
  [d \in Clients |-> IF d # c /\ dealing[d].active
                     THEN [dealing[d] EXCEPT !.lag = @ + 1] ELSE dealing[d]]

\* exploration bound on staleness: a transaction that has been overtaken
\* MaxLag times settles before a fresher one commits
mayCommit(c, lag) ==
  \/ lag >= MaxLag
  \/ /\ \A d \in Clients \ {c} : pending[d].active => pending[d].lag < MaxLag
     /\ \A d \in Clients \ {c} : dealing[d].active => dealing[d].lag < MaxLag

\* a replenish-only transaction is not held up by claims in flight
dealMayCommit(c) ==
  \/ dealing[c].lag >= MaxLag
  \/ \A d \in Clients \ {c} : dealing[d].active => dealing[d].lag < MaxLag

\* onCardSelect completes a triple that passes attemptClaimSet's local
\* pre-check against the client's snapshot; the transaction is submitted
selectFrom(c, found, picks) ==
  \E k \in 1..min(picks, Len(found)) :
    pending' = [pending EXCEPT ![c] =
                  [NoClaim EXCEPT !.active = TRUE,
                                  !.positions = found[k],
                                  !.cards = [n \in 1..3 |->
                                               board[found[k][n] + 1]]]]

SelectSet(c) ==
  /\ page[c] = "play"
  /\ ~busy[c]
  /\ status = "playing"
  /\ inFlight < maxInFlight
  /\ allRedirected
  /\ selectFrom(c, findAllSets(boardCards(board)),
                IF totalScore < BranchDepth THEN MaxChoice ELSE 1)
  /\ busy' = [busy EXCEPT ![c] = TRUE]
  /\ UNCHANGED <<record, page, startBtnEnabled, dealing, lastTx>>
  /\ UNCHANGED elsewhere

\* runTransaction settles for the claim of client c with outcome r
settleClaim(c, r) ==
  IF r.committed
  THEN /\ mayCommit(c, pending[c].lag)
       /\ players' = r.players
       /\ board' = r.board
       /\ deckPointer' = r.deckPointer
       /\ status' = r.status
       /\ finishedAt' = r.finishedAt
       /\ IF r.status = "finished"
          THEN \E order \in Orders(DOMAIN r.players) :
                 winnerId' = computeWinner(order, r.players)
          ELSE winnerId' = winnerId
       /\ pending' = [overtakenClaims(c, pending[c].positions)
                        EXCEPT ![c] = NoClaim]
       /\ dealing' = overtakenDeals(c)
       /\ lastTx' = [NoTx EXCEPT !.op = "claim", !.committed = TRUE]
       /\ UNCHANGED <<maxPlayers, hostId, shuffledIndices, startedAt>>
  ELSE /\ pending' = [pending EXCEPT ![c] = NoClaim]
       /\ lastTx' = [NoTx EXCEPT !.op = "claim"]
       /\ UNCHANGED <<record, dealing>>

\* a completion path that clears busy at the end of the try block
completionInsideTry(c, outcome) ==
  busy' = [busy EXCEPT ![c] = (outcome = "error")]

\* the completion path of attemptClaimSet: whatever the outcome of the
\* arbitration call (it only selects the toast), finally clears busy
completion(c, outcome) ==
  busy' = [busy EXCEPT ![c] = FALSE]

ClaimTransaction(c) ==
  /\ pending[c].active
  /\ settleClaim(c, claimTransform(c, pending[c].positions))
  /\ completion(c, "settled")
  /\ UNCHANGED <<page, startBtnEnabled>>
  /\ UNCHANGED elsewhere

\* runTransaction rejects (connectivity error): nothing is written
ClaimFails(c) ==
  /\ pending[c].active
  /\ failuresExplored
  /\ pending' = [pending EXCEPT ![c] = NoClaim]
  /\ lastTx' = [NoTx EXCEPT !.op = "claim", !.reason = "error"]
  /\ completion(c, "error")
  /\ UNCHANGED <<record, page, startBtnEnabled, dealing>>
  /\ UNCHANGED elsewhere

\* ------------------------------------- multi-play: deal when no Set is left
\* dealTransform that deals only onto a board of base size
dealTransformBaseBoardOnly ==
  IF status # "playing" THEN Abort
  ELSE IF hasSet(boardCards(board)) THEN Abort
  ELSE IF deckPointer >= DeckSize THEN Abort
  ELSE IF Len(board) > BaseBoardSize THEN Abort
  ELSE LET toAdd == min(DealSize, DeckSize - deckPointer)
       IN  [committed   |-> TRUE,
            board       |-> board \o slice(shuffledIndices, deckPointer,
                                           deckPointer + toAdd),
            deckPointer |-> deckPointer + toAdd]

\* dealTransform without the test for a Set on the latest board
dealTransformNoSetCheck ==
  IF status # "playing" THEN Abort
  ELSE IF deckPointer >= DeckSize THEN Abort
  ELSE LET toAdd == min(DealSize, DeckSize - deckPointer)
       IN  [committed   |-> TRUE,
            board       |-> board \o slice(shuffledIndices, deckPointer,
                                           deckPointer + toAdd),
            deckPointer |-> deckPointer + toAdd]

\* the transform ensureSetOnBoard hands to runTransaction
dealTransform ==
  IF status # "playing" THEN Abort
  ELSE IF hasSet(boardCards(board)) THEN Abort
  ELSE IF deckPointer >= DeckSize THEN Abort
  ELSE LET toAdd == min(DealSize, DeckSize - deckPointer)
       IN  [committed   |-> TRUE,
            board       |-> board \o slice(shuffledIndices, deckPointer,
                                           deckPointer + toAdd),
            deckPointer |-> deckPointer + toAdd]

\* handleStateUpdate -> ensureSetOnBoard: the snapshot is playing, setless
\* and has cards left, so the transaction is submitted
EnsureSetOnBoard(c) ==
  /\ page[c] = "play"
  /\ ~dealing[c].active
  /\ status = "playing"
  /\ deckPointer < DeckSize
  /\ inFlight < MaxPending
  /\ ~hasSet(boardCards(board))
  /\ dealing' = [dealing EXCEPT ![c] = [active |-> TRUE, lag |-> 0]]
  /\ UNCHANGED <<record, page, startBtnEnabled, pending, busy, lastTx>>
  /\ UNCHANGED elsewhere

\* runTransaction settles for the replenish-only transform of client c
settleDeal(c, r) ==
  IF r.committed
  THEN /\ dealMayCommit(c)
       /\ board' = r.board
       /\ deckPointer' = r.deckPointer
       /\ dealing' = [overtakenDeals(c) EXCEPT ![c] = NoDeal]
       /\ pending' = overtakenClaims(c, << >>)
       /\ lastTx' = [NoTx EXCEPT !.op = "deal", !.committed = TRUE]
       /\ UNCHANGED <<status, maxPlayers, hostId, shuffledIndices, players,
                      startedAt, finishedAt, winnerId>>
  ELSE /\ dealing' = [dealing EXCEPT ![c] = NoDeal]
       /\ lastTx' = [NoTx EXCEPT !.op = "deal"]
       /\ UNCHANGED <<record, pending>>

DealTransaction(c) ==
  /\ dealing[c].active
  /\ settleDeal(c, dealTransform)
  /\ UNCHANGED <<page, startBtnEnabled, busy>>
  /\ UNCHANGED elsewhere

\* ------------------------------------------------------------ specification
Next ==
  \/ \E c \in Clients : JoinGame(c)
  \/ \E c \in Clients : WaitingRoomSnapshot(c)
  \/ \E c \in Clients : StartGame(c)
  \/ \E c \in Clients : LeaveGame(c)
  \/ \E c \in Clients : Disconnect(c)
  \/ \E c \in Clients : OpenLobby(c)
  \/ \E c \in Clients : OpenPlay(c)
  \/ \E c \in Clients : SelectSet(c)
  \/ \E c \in Clients : ClaimTransaction(c)
  \/ \E c \in Clients : ClaimFails(c)
  \/ \E c \in Clients : EnsureSetOnBoard(c)
  \/ \E c \in Clients : DealTransaction(c)

Spec == Init /\ [][Next]_vars

\* Every commit is pushed to every subscribed client, whose handleStateUpdate
\* calls ensureSetOnBoard, and the arbitration service settles every
\* replenish-only transaction submitted to it.
Fairness ==
  \A c \in Clients : /\ WF_vars(EnsureSetOnBoard(c))
                      /\ WF_vars(DealTransaction(c))

SpecLive == Init /\ [][Next]_vars /\ Fairness

\* --------------------------------------------------- winner determination
\* The winner loop on its own: a playing record whose players hold any
\* scores up to MaxScore, finished by one run of the loop.
MaxScore == 2
ScoreIds == Clients \cup {"c"}

InitWinner ==
  \E P \in SUBSET ScoreIds \ {{}} : \E sc \in [P -> 0..MaxScore] :
    /\ status = "playing"
    /\ maxPlayers = Cardinality(P)
    /\ hostId = Host
    /\ shuffledIndices = shuffle(1)
    /\ deckPointer = DeckSize
    /\ board = << >>
    /\ players = [p \in P |-> [NewPlayer EXCEPT !.score = sc[p]]]
    /\ startedAt = Stamp
    /\ finishedAt = Null
    /\ winnerId = Null
    /\ page = [c \in Clients |-> "play"]
    /\ startBtnEnabled = FALSE
    /\ pending = [c \in Clients |-> NoClaim]
    /\ busy = [c \in Clients |-> FALSE]
    /\ dealing = [c \in Clients |-> NoDeal]
    /\ lastTx = NoTx
    /\ soloLoaded
    /\ penaltyIdle
    /\ joinIdle
    /\ searchIdle

DeclareWinner ==
  /\ status = "playing"
  /\ \E order \in Orders(DOMAIN players) :
       winnerId' = computeWinner(order, players)
  /\ status' = "finished"
  /\ finishedAt' = Stamp
  /\ lastTx' = [NoTx EXCEPT !.op = "claim", !.committed = TRUE]
  /\ UNCHANGED <<maxPlayers, hostId, shuffledIndices, deckPointer, board,
                 players, startedAt, page, startBtnEnabled, pending, busy,
                 dealing>>
  /\ UNCHANGED elsewhere

NextWinner == DeclareWinner

SpecWinner == InitWinner /\ [][NextWinner]_vars

\* ---------------------------------------------------------------- set-logic
\* isSet on its own: the board holds the three argument cards, drawn from
\* the whole card space, and the actions reorder the arguments.
InitSetLogic ==
  \E i \in 0..(DeckSize - 1) : \E j \in i..(DeckSize - 1) :
    \E k \in j..(DeckSize - 1) :
      /\ board = <<i, j, k>>
      /\ status = "playing"
      /\ maxPlayers = 2
      /\ hostId = Host
      /\ shuffledIndices = shuffle(1)
      /\ deckPointer = DeckSize
      /\ players = [p \in {Host} |-> NewPlayer]
      /\ startedAt = Stamp
      /\ finishedAt = Null
      /\ winnerId = Null
      /\ page = [c \in Clients |-> "play"]
      /\ startBtnEnabled = FALSE
      /\ pending = [c \in Clients |-> NoClaim]
      /\ busy = [c \in Clients |-> FALSE]
      /\ dealing = [c \in Clients |-> NoDeal]
      /\ lastTx = NoTx
      /\ soloLoaded
      /\ penaltyIdle
      /\ joinIdle
      /\ searchIdle

\* isSet(a, b, c) of the three argument cards
isSetOf(b) ==
  isSet(CANONICAL_DECK[b[1] + 1], CANONICAL_DECK[b[2] + 1],
        CANONICAL_DECK[b[3] + 1])

SwapArguments ==
  /\ board' = <<board[2], board[1], board[3]>>
  /\ UNCHANGED <<status, maxPlayers, hostId, shuffledIndices, deckPointer,
                 players, startedAt, finishedAt, winnerId, local>>
  /\ UNCHANGED elsewhere

RotateArguments ==
  /\ board' = <<board[2], board[3], board[1]>>
  /\ UNCHANGED <<status, maxPlayers, hostId, shuffledIndices, deckPointer,
                 players, startedAt, finishedAt, winnerId, local>>
  /\ UNCHANGED elsewhere

NextSetLogic == SwapArguments \/ RotateArguments

SpecSetLogic == InitSetLogic /\ [][NextSetLogic]_vars

\* -------------------------------------------------------- set-logic: search
\* createDeck, findAllSets and hasSet on their own.  The argument array is
\* the whole deck, a leading part of a shuffle, or any short array over the
\* first cards of the deck (the same card may occur twice).
MaxCards  == 13      \* longest leading part of a shuffle
MaxLen    == 3       \* longest array of arbitrary cards ...
SmallDeck == 9       \* ... drawn from the first SmallDeck cards

\* every game variable at rest, for the specifications of other pages
lobbyIdle ==
  /\ status = "waiting"
  /\ maxPlayers = 2
  /\ hostId = Host
  /\ shuffledIndices = shuffle(1)
  /\ deckPointer = BaseBoardSize
  /\ players = [p \in {Host} |-> NewPlayer]
  /\ startedAt = Null
  /\ finishedAt = Null
  /\ winnerId = Null
  /\ page = [c \in Clients |-> "lobby"]
  /\ startBtnEnabled = FALSE
  /\ pending = [c \in Clients |-> NoClaim]
  /\ dealing = [c \in Clients |-> NoDeal]
  /\ lastTx = NoTx

\* [...Array(n).keys()]
keys(n) == [i \in 1..n |-> i - 1]

SearchInputs ==
  {keys(DeckSize)}
    \cup {slice(shuffle(s), 0, n) : s \in 1..NumShuffles, n \in 0..MaxCards}
    \cup UNION {[1..n -> 0..(SmallDeck - 1)] : n \in 0..MaxLen}

InitSearch ==
  /\ cards \in SearchInputs
  /\ allCards = << >>
  /\ results = None
  /\ anySet = None
  /\ board = << >>
  /\ busy = [c \in Clients |-> FALSE]
  /\ lobbyIdle
  /\ soloLoaded
  /\ penaltyIdle
  /\ joinIdle

\* const allCards = createDeck()
CreateDeck ==
  /\ allCards = << >>
  /\ allCards' = createDeck
  /\ UNCHANGED <<record, local, solo, penalty, joining, cards, results, anySet>>

\* cards.map(i => allCards[i])
cardsOf(all, idx) == [n \in 1..Len(idx) |-> all[idx[n] + 1]]

FindAllSets ==
  /\ allCards # << >>
  /\ results = None
  /\ results' = <<findAllSets(cardsOf(allCards, cards))>>
  /\ UNCHANGED <<record, local, solo, penalty, joining,
                 allCards, cards, anySet>>

HasSet ==
  /\ allCards # << >>
  /\ anySet = None
  /\ anySet' = <<hasSet(cardsOf(allCards, cards))>>
  /\ UNCHANGED <<record, local, solo, penalty, joining,
                 allCards, cards, results>>

NextSearch == CreateDeck \/ FindAllSets \/ HasSet

SpecSearch == InitSearch /\ [][NextSearch]_vars

\* ------------------------------------------------------------------ play.js
\* Solo and vs-computer play.  Every event handler and every timeout
\* callback of play.js is one action; the browser runs them one at a time.
NumDraws  == 4       \* permutations startGame's shuffle can draw
SideDepth == 1       \* extent of the exploration of side events, below

\* Date.now() + delay, and a time left on the computer's timer
Deadline  == 1
Remaining == 1

reverse(seq) == [i \in 1..Len(seq) |-> seq[Len(seq) + 1 - i]]

\* shuffle(createDeck()), as canonical indices: the d-th permutation drawn
shuffleDeck(d) ==
  IF d % 2 = 1 THEN shuffle((d + 1) \div 2) ELSE reverse(shuffle(d \div 2))

\* the module-level variables of play.js and the browser's pending timeouts
game ==
  [gameMode |-> gameMode, deck |-> deck, board |-> board,
   selected |-> selected, score |-> score, busy |-> busy,
   computerScore |-> computerScore,
   computerTimerHandle |-> computerTimerHandle,
   computerTimerDeadline |-> computerTimerDeadline,
   computerPauseRemaining |-> computerPauseRemaining,
   paused |-> paused, hintStep |-> hintStep,
   hintSetIndices |-> hintSetIndices, timerInterval |-> timerInterval,
   modalMode |-> modalMode, modalOverlay |-> modalOverlay,
   computerTimer |-> computerTimer, flights |-> flights,
   replenishing |-> replenishing, flashes |-> flashes]

\* the handler returns leaving the variables as in g
become(g) ==
  \E h \in {g} :
    /\ gameMode' = h.gameMode
    /\ deck' = h.deck
    /\ board' = h.board
    /\ selected' = h.selected
    /\ score' = h.score
    /\ busy' = h.busy
    /\ computerScore' = h.computerScore
    /\ computerTimerHandle' = h.computerTimerHandle
    /\ computerTimerDeadline' = h.computerTimerDeadline
    /\ computerPauseRemaining' = h.computerPauseRemaining
    /\ paused' = h.paused
    /\ hintStep' = h.hintStep
    /\ hintSetIndices' = h.hintSetIndices
    /\ timerInterval' = h.timerInterval
    /\ modalMode' = h.modalMode
    /\ modalOverlay' = h.modalOverlay
    /\ computerTimer' = h.computerTimer
    /\ flights' = h.flights
    /\ replenishing' = h.replenishing
    /\ flashes' = h.flashes
    /\ UNCHANGED <<status, maxPlayers, hostId, shuffledIndices, deckPointer,
                   players, startedAt, finishedAt, winnerId, page,
                   startBtnEnabled, pending, dealing, lastTx, search,
                   penalty, joining>>

resetHint(g) == [g EXCEPT !.hintStep = 0, !.hintSetIndices = None]

clearComputerTimer(g) ==
  [g EXCEPT !.computerTimer = IF g.computerTimerHandle # Null THEN "none"
                              ELSE @,
            !.computerTimerHandle = Null,
            !.computerTimerDeadline = 0]

setComputerTimer(g) ==
  [g EXCEPT !.computerTimerDeadline = Deadline,
            !.computerTimerHandle = "timeout",
            !.computerTimer = "scheduled"]

scheduleComputerMove(g) == setComputerTimer(clearComputerTimer(g))

\* dealCards(n): n times deck.pop() onto the end of the board
dealCards(g, n) ==
  [g EXCEPT !.deck = SubSeq(g.deck, 1, Len(g.deck) - min(n, Len(g.deck))),
            !.board = g.board \o
                      [i \in 1..min(n, Len(g.deck)) |->
                         g.deck[Len(g.deck) + 1 - i]]]

replaceCard(g, boardIndex) ==
  IF g.deck = << >> THEN g
  ELSE [g EXCEPT !.deck = SubSeq(g.deck, 1, Len(g.deck) - 1),
                 !.board[boardIndex + 1] = g.deck[Len(g.deck)]]

removeCards(g, indices) ==
  [g EXCEPT !.board = splice(splice(splice(g.board, sortDesc(indices)[1]),
                                    sortDesc(indices)[2]),
                             sortDesc(indices)[3])]

replaceSorted(g, sorted) ==
  replaceCard(replaceCard(replaceCard(g, sorted[1]), sorted[2]), sorted[3])

\* replaceOrRemoveCards that replaces whenever the deck has three cards
replaceOrRemoveCardsAnySize(g, indices) ==
  IF Len(g.deck) >= DealSize
  THEN replaceSorted(g, sortDesc(indices))
  ELSE removeCards(g, indices)

replaceOrRemoveCards(g, indices) ==
  IF Len(g.board) <= BaseBoardSize /\ Len(g.deck) >= DealSize
  THEN replaceSorted(g, sortDesc(indices))
  ELSE removeCards(g, indices)

gameIsOver(g) == g.deck = << >> /\ ~hasSet(boardCards(g.board))

\* showGameOver(): stopTimer() and the game-over dialog
showGameOver(g) ==
  [g EXCEPT !.timerInterval = Null, !.modalOverlay = "shown"]

\* checkGameOver that ends the game as soon as the deck is empty
checkGameOverOnEmptyDeck(g, reschedule) ==
  IF g.deck = << >> THEN showGameOver(clearComputerTimer(g))
  ELSE IF reschedule THEN scheduleComputerMove(g)
  ELSE g

\* if (!checkGameOver() && reschedule) scheduleComputerMove()
checkGameOver(g, reschedule) ==
  IF gameIsOver(g) THEN showGameOver(clearComputerTimer(g))
  ELSE IF reschedule THEN scheduleComputerMove(g)
  ELSE g

\* the onDone callbacks handed to ensureSetOnBoard by handleSuccess
\* ("player") and by computerTakesSet ("computer")
onDone(g, by) ==
  checkGameOver([g EXCEPT !.busy = FALSE],
                (by = "computer" \/ g.gameMode = "vs-computer")
                  /\ ~g.paused)

\* ensureSetOnBoard that never deals
ensureSetOnBoardNoDeal(g, by) == onDone(g, by)

\* ensureSetOnBoard(onDone, true): onDone at once, or a timeout that deals
ensureSetOnBoard(g, by) ==
  IF hasSet(boardCards(g.board)) \/ g.deck = << >>
  THEN onDone(g, by)
  ELSE [g EXCEPT !.replenishing = Append(@, [by |-> by])]

\* ensureSetOnBoard(null, false) that deals one batch at most
ensureSetSilentOnce(g) ==
  IF hasSet(boardCards(g.board)) \/ g.deck = << >>
  THEN g
  ELSE dealCards(g, DealSize)

\* ensureSetOnBoard(null, false): the synchronous path of startGame
RECURSIVE ensureSetSilent(_)
ensureSetSilent(g) ==
  IF hasSet(boardCards(g.board)) \/ g.deck = << >>
  THEN g
  ELSE ensureSetSilent(dealCards(g, DealSize))

\* startGame() with the d-th permutation as the shuffled deck
startGameVars(g, d) ==
  [clearComputerTimer(resetHint(g))
     EXCEPT !.deck = shuffleDeck(d), !.board = << >>, !.selected = << >>,
            !.score = 0, !.computerScore = 0, !.busy = FALSE,
            !.paused = FALSE, !.computerTimerDeadline = 0,
            !.computerPauseRemaining = 0, !.modalMode = "hidden",
            !.modalOverlay = "hidden", !.timerInterval = "interval"]

startGameDealt(g) ==
  IF g.gameMode = "vs-computer" THEN scheduleComputerMove(g) ELSE g

startGame(g, d) ==
  startGameDealt(ensureSetSilent(dealCards(startGameVars(g, d),
                                           BaseBoardSize)))

handleSuccess(g, indices) ==
  [(IF g.gameMode = "vs-computer" THEN clearComputerTimer(resetHint(g))
    ELSE resetHint(g))
     EXCEPT !.busy = TRUE, !.score = @ + 1,
            !.flights = Append(@, [indices |-> indices, by |-> "player"])]

handleError(g) == [g EXCEPT !.busy = TRUE, !.flashes = @ + 1]

\* validateSelection that takes every three cards for a Set
validateSelectionAnyTriple(g) == handleSuccess(g, g.selected)

validateSelection(g) ==
  IF isSetAt(boardCards(g.board), g.selected)
  THEN handleSuccess(g, g.selected)
  ELSE handleError(g)

toggleSelect(g, idx) ==
  IF \E p \in DOMAIN g.selected : g.selected[p] = idx
  THEN [g EXCEPT !.selected = SelectSeq(@, LAMBDA x : x # idx)]
  ELSE IF Len(g.selected) >= 3 THEN g
  ELSE IF Len(g.selected) = 2
  THEN validateSelection([g EXCEPT !.selected = Append(@, idx)])
  ELSE [g EXCEPT !.selected = Append(@, idx)]

\* computerTakesSet() once it is not deferred
computerClaims(g, sets) ==
  IF sets = << >> THEN g
  ELSE [resetHint(g)
          EXCEPT !.busy = TRUE, !.selected = << >>,
                 !.computerScore = @ + 1,
                 !.flights = Append(@, [indices |-> sets[1],
                                        by |-> "computer"])]

\* computerTakesSet that gives up when the board is busy
computerTakesSetNoRetry(g) ==
  IF g.busy
  THEN [g EXCEPT !.computerTimer = "none"]
  ELSE computerClaims([g EXCEPT !.computerTimer = "none"],
                      findAllSets(boardCards(g.board)))

computerTakesSet(g) ==
  IF g.busy
  THEN [g EXCEPT !.computerTimer = "retry",
                 !.computerTimerHandle = "timeout"]
  ELSE computerClaims([g EXCEPT !.computerTimer = "none"],
                      findAllSets(boardCards(g.board)))

\* computerTimerDeadline - Date.now() is positive until the timeout fires
pauseGame(g) ==
  IF g.gameMode = "vs-computer" /\ g.computerTimerDeadline > 0
  THEN clearComputerTimer(
         [g EXCEPT !.paused = TRUE, !.timerInterval = Null,
                   !.computerPauseRemaining =
                     IF g.computerTimer = "scheduled" THEN Remaining ELSE 0])
  ELSE [g EXCEPT !.paused = TRUE, !.timerInterval = Null]

resumeGame(g) ==
  IF g.gameMode = "vs-computer" /\ g.computerPauseRemaining > 0
  THEN [setComputerTimer(g) EXCEPT !.paused = FALSE,
                                   !.timerInterval = "interval",
                                   !.computerPauseRemaining = 0]
  ELSE [g EXCEPT !.paused = FALSE, !.timerInterval = "interval"]

showHint(g, sets) ==
  IF g.hintStep = 0 /\ sets = << >> THEN g
  ELSE IF g.hintStep = 0
  THEN [g EXCEPT !.hintSetIndices = sets[1], !.hintStep = 1]
  ELSE IF g.hintStep < 3 THEN [g EXCEPT !.hintStep = @ + 1]
  ELSE g

\* exploration bounds.  Hints, wrong selections, deselections, pauses and
\* new games happen during the first SideDepth claims of a game; a new game
\* is also started from the game-over dialog, and none is started while the
\* game is paused, hinted or half selected, nor from a free board after
\* the first claim.  The player pauses and asks for
\* a hint with no card selected, and after a hint selects the first set.
\* After the first SideDepth claims the player leaves the board to a
\* computer whose move is pending.
\* A new game starts with at
\* most one callback of the previous game pending, whose positions exist on
\* every new board, and the player clicks no card before a flight of the
\* previous game has landed.  The player clicks the cards of a triple in
\* board order: of one of the first sets findAllSets lists, or of the
\* first triple that is not a Set.
\* no game has been dealt yet, or the cards of the game are all in the deck,
\* on the board or scored (the cards of a claim are scored before their
\* flight takes them off the board)
intact ==
  \/ deck = << >> /\ board = << >> /\ score + computerScore = 0
  \/ Len(deck) + Len(board) + 3 * (score + computerScore) =
       DeckSize + (IF score + computerScore > 0 THEN 3 * Len(flights) ELSE 0)

\* a game that lost cards to a callback of the previous game is followed
\* up to its first claim
sideExplored ==
  /\ score + computerScore < SideDepth
  /\ intact \/ score + computerScore = 0

\* an intact game is played to its end once the callbacks of the previous
\* game have run, unless it goes on behind the mode dialog; no new game is
\* started from a game that lost cards
settled == flights = << >> /\ replenishing = << >> /\ flashes = 0

followed ==
  \/ sideExplored
  \/ intact /\ (busy \/ settled) /\ modalMode = "hidden"

staleFits ==
  /\ Len(flights) + Len(replenishing) + flashes <= 1
  /\ \A p \in DOMAIN flights : \A i \in 1..3 :
       flights[p].indices[i] < BaseBoardSize

wrongTriple(cs) ==
  IF Len(cs) < 4 THEN << >>
  ELSE IF isSetAt(cs, <<0, 1, 2>>) THEN <<0, 1, 3>>
  ELSE <<0, 1, 2>>

targets(sets, picks) ==
  {sets[k] : k \in 1..min(IF hintStep > 0 THEN 1 ELSE picks, Len(sets))}
    \cup (IF sideExplored /\ hintStep = 0
          THEN {wrongTriple(boardCards(board))} \ {<< >>}
          ELSE {})

nextClicks(ts) ==
  {t[Len(selected) + 1] :
     t \in {u \in ts : SubSeq(u, 1, Len(selected)) = selected}}
    \cup (IF sideExplored /\ selected # << >>
          THEN {selected[Len(selected)]} ELSE {})

clicksExplored ==
  IF \/ busy \/ paused \/ flights # << >> \/ Len(selected) >= 3
     \/ ~followed
     \/ ~sideExplored /\ computerTimer # "none"
  THEN {}
  ELSE nextClicks(targets(findAllSets(boardCards(board)),
                          IF score + computerScore < BranchDepth
                          THEN MaxChoice ELSE 1))

\* the dialogs cover the board
boardShown == modalMode = "hidden" /\ modalOverlay = "hidden"

InitSolo ==
  /\ soloLoaded
  /\ penaltyIdle
  /\ joinIdle
  /\ board = << >>
  /\ busy = FALSE
  /\ lobbyIdle
  /\ searchIdle

\* btnNewGame / btnPlayAgain: showModeModal()
ShowModeModal ==
  /\ modalMode = "hidden"
  /\ \/ score + computerScore = 0
     \/ sideExplored /\ busy
     \/ modalOverlay = "shown"
  /\ ~paused /\ hintStep = 0 /\ (selected = << >> \/ busy)
  /\ staleFits /\ intact
  /\ become([game EXCEPT !.modalOverlay = "hidden", !.modalMode = "shown"])

\* btnSolo
ChooseSolo ==
  /\ modalMode = "shown"
  /\ staleFits /\ intact
  /\ \E d \in 1..NumDraws :
       become(startGame([game EXCEPT !.gameMode = "solo"], d))

\* a difficulty button
ChooseVsComputer ==
  /\ modalMode = "shown"
  /\ staleFits /\ intact
  /\ \E d \in 1..NumDraws :
       become(startGame([game EXCEPT !.gameMode = "vs-computer"], d))

\* onCardPointerDown / onCardKeyDown on the card at position idx
CardPointerDown(idx) ==
  /\ ~busy
  /\ ~paused
  /\ boardShown
  /\ become(toggleSelect(game, idx))

\* the timeout of flyCardsToScore calls onComplete: replaceOrRemoveCards,
\* selected = [] in the player's callback, then ensureSetOnBoard.  (The
\* timeouts bind the result of each call once.)
FlightLands ==
  /\ flights # << >>
  /\ \E called \in {[game EXCEPT !.flights = Tail(@)]} :
       \E replaced \in {replaceOrRemoveCards(called, flights[1].indices)} :
         \E cleared \in {[replaced EXCEPT
                             !.selected = IF flights[1].by = "player"
                                          THEN << >> ELSE @]} :
           \E done \in {ensureSetOnBoard(cleared, flights[1].by)} :
             become(done)

\* the timeout of ensureSetOnBoard deals three cards and checks again
ReplenishTimeout ==
  /\ replenishing # << >>
  /\ \E called \in {[game EXCEPT !.replenishing = Tail(@)]} :
       \E dealt \in {dealCards(called, DealSize)} :
         \E done \in {ensureSetOnBoard(dealt, replenishing[1].by)} :
           become(done)

\* the timeout of handleError
FlashEnds ==
  /\ flashes > 0
  /\ become([game EXCEPT !.flashes = @ - 1, !.selected = << >>,
                         !.busy = FALSE])

\* the computer's timeout fires.  It is set for 2000 ms or more, or by a
\* resumeGame that puts an older one back; a flight lasts 530 ms and its
\* claim cancels the computer's timeout, so the flights that are pending
\* when the timeout is set land before it fires.
ComputerTakesSet ==
  /\ computerTimer # "none"
  /\ flights = << >>
  /\ followed
  /\ \E called \in {game} :
       \E done \in {computerTakesSet(called)} : become(done)

PauseGame ==
  /\ ~paused
  /\ timerInterval # Null
  /\ sideExplored /\ hintStep = 0 /\ selected = << >>
  /\ become(pauseGame(game))

\* btnResume or the Escape key
ResumeGame ==
  /\ paused
  /\ become(resumeGame(game))

ShowHint ==
  /\ ~busy
  /\ ~paused
  /\ boardShown
  /\ sideExplored /\ selected = << >>
  /\ hintStep < 3
  /\ become(showHint(game, findAllSets(boardCards(board))))

NextSolo ==
  \/ ShowModeModal
  \/ ChooseSolo
  \/ ChooseVsComputer
  \/ \E idx \in clicksExplored : CardPointerDown(idx)
  \/ FlightLands
  \/ ReplenishTimeout
  \/ FlashEnds
  \/ ComputerTakesSet
  \/ PauseGame
  \/ ResumeGame
  \/ ShowHint

SpecSolo == InitSolo /\ [][NextSolo]_vars

\* the browser runs every timeout that is due: the flight's callback, the
\* timed deal, the end of the flash, and the computer's move.  A deferred
\* move is tried again every 300 ms and finds the board free after a flash
\* before the player has clicked three more cards, so it is not put off
\* for ever by a board that is busy again and again.
FairnessSolo ==
  /\ SF_vars(ComputerTakesSet)
  /\ WF_vars(FlightLands)
  /\ WF_vars(ReplenishTimeout)
  /\ WF_vars(FlashEnds)

SpecSoloLive == SpecSolo /\ FairnessSolo

\* -------------------------------------------- multi-play.js: the penalty
MaxPenalties == 2    \* invalid selections made in a row

\* the variables of one client's multi-play.js page; claiming is its
\* runTransaction call of attemptClaimSet in flight
multi ==
  [status |-> status, busy |-> busy, selected |-> selected,
   timerInterval |-> timerInterval, modalOverlay |-> modalOverlay,
   claiming |-> pending[Host].active, lastTx |-> lastTx,
   nextPenaltySecs |-> nextPenaltySecs,
   penaltyTimerHandle |-> penaltyTimerHandle, remaining |-> remaining,
   penalized |-> penalized, penaltyOverlay |-> penaltyOverlay,
   penaltyBar |-> penaltyBar, cutoffs |-> cutoffs]

render(m) ==
  /\ status' = m.status
  /\ busy' = m.busy
  /\ selected' = m.selected
  /\ timerInterval' = m.timerInterval
  /\ modalOverlay' = m.modalOverlay
  /\ pending' = [pending EXCEPT ![Host].active = m.claiming]
  /\ lastTx' = m.lastTx
  /\ nextPenaltySecs' = m.nextPenaltySecs
  /\ penaltyTimerHandle' = m.penaltyTimerHandle
  /\ remaining' = m.remaining
  /\ penalized' = m.penalized
  /\ penaltyOverlay' = m.penaltyOverlay
  /\ penaltyBar' = m.penaltyBar
  /\ cutoffs' = m.cutoffs
  /\ UNCHANGED <<maxPlayers, hostId, shuffledIndices, deckPointer, board,
                 players, startedAt, finishedAt, winnerId, page,
                 startBtnEnabled, dealing, search, joining>>
  /\ UNCHANGED <<gameMode, deck, score, computerScore, computerTimerHandle,
                 computerTimerDeadline, computerPauseRemaining, paused,
                 hintStep, hintSetIndices, modalMode, computerTimer,
                 flights, replenishing, flashes>>

\* startTimer(startedAt) of a game that has started
startTimer(m) ==
  IF m.timerInterval # Null THEN m
  ELSE [m EXCEPT !.timerInterval = "interval"]

stopTimer(m) ==
  [m EXCEPT !.timerInterval = Null,
            !.penaltyTimerHandle = Null,
            !.penaltyOverlay = "hidden",
            !.penaltyBar = "hidden"]

clearPenalty(m) ==
  IF m.penaltyTimerHandle = Null /\ m.penaltyBar = "hidden" THEN m
  ELSE [m EXCEPT !.penaltyTimerHandle = Null,
                 !.penalized = FALSE,
                 !.penaltyOverlay = "hidden",
                 !.penaltyBar = "hidden",
                 !.busy = FALSE]

\* showGameOver(state) of multi-play.js
showGameOverMulti(m) == [clearPenalty(m) EXCEPT !.modalOverlay = "shown"]

\* handleStateUpdate(newState): checkScoreChanges, renderBoard, then the
\* branch of newState.status (its ensureSetOnBoard submits a transaction and
\* changes nothing on the page)
handleStateUpdate(m, newStatus, scored) ==
  IF newStatus = "playing"
  THEN startTimer([m EXCEPT !.status = newStatus,
                            !.nextPenaltySecs = IF scored THEN 2 ELSE @,
                            !.selected = << >>])
  ELSE showGameOverMulti(
         stopTimer([m EXCEPT !.status = newStatus,
                             !.nextPenaltySecs = IF scored THEN 2 ELSE @,
                             !.selected = << >>]))

applyPenalty(m) ==
  [m EXCEPT !.nextPenaltySecs = @ + 1,
            !.penalized = TRUE,
            !.penaltyOverlay = "shown",
            !.penaltyBar = "shown",
            !.remaining = m.nextPenaltySecs * 10,
            !.penaltyTimerHandle = "interval",
            !.cutoffs = @ + 1]

attemptClaimSet(m, positions) ==
  IF \/ \E n \in 1..3 : positions[n] >= Len(board)
     \/ ~isSetAt(boardCards(board), positions)
  THEN applyPenalty([m EXCEPT !.busy = TRUE])
  ELSE [m EXCEPT !.busy = TRUE, !.claiming = TRUE]

onCardSelect(m, position) ==
  IF m.busy \/ m.status # "playing" THEN m
  ELSE IF \E n \in DOMAIN m.selected : m.selected[n] = position
  THEN [m EXCEPT !.selected = SelectSeq(@, LAMBDA q : q # position)]
  ELSE IF Len(m.selected) >= 3 THEN m
  ELSE IF Len(m.selected) = 2
  THEN attemptClaimSet([m EXCEPT !.selected = << >>],
                       Append(m.selected, position))
  ELSE [m EXCEPT !.selected = Append(@, position)]

\* the board of the client's snapshots, and the triples the player goes
\* for: the first Set of the board and three cards that are no Set
penaltyBoard == slice(shuffle(1), 0, BaseBoardSize)

penaltyTargets ==
  {findAllSets(boardCards(penaltyBoard))[1],
   wrongTriple(boardCards(penaltyBoard))}

InitPenalty ==
  /\ lobbyIdle
  /\ soloLoaded
  /\ penaltyIdle
  /\ joinIdle
  /\ searchIdle
  /\ board = penaltyBoard
  /\ busy = FALSE

\* the onValue callback with a snapshot of the game; a score has gone up
\* only in a snapshot that follows one of a game in play
HandleStateUpdate ==
  \E newStatus \in {"playing", "finished"}, scored \in BOOLEAN :
    /\ scored => status = "playing"
    /\ render(handleStateUpdate(multi, newStatus, scored))

\* a click on a card.  A countdown lasts two seconds or more and its
\* cutoff is due 50 ms after its end, so one cutoff at most is pending when
\* the next invalid selection is made.
OnCardSelect(position) ==
  /\ nextPenaltySecs < 2 + MaxPenalties
  /\ cutoffs <= 1
  /\ render(onCardSelect(multi, position))

\* runTransaction settles and attemptClaimSet's finally block runs
ClaimSettles ==
  /\ pending[Host].active
  /\ \E committed \in BOOLEAN :
       render([multi EXCEPT !.busy = FALSE, !.claiming = FALSE,
                            !.lastTx = [NoTx EXCEPT !.op = "claim",
                                                    !.committed = committed]])

\* the interval of applyPenalty, every 100 ms
PenaltyTick ==
  /\ penaltyTimerHandle # Null
  /\ IF remaining - 1 <= 0
     THEN render(clearPenalty([multi EXCEPT !.remaining = @ - 1]))
     ELSE render([multi EXCEPT !.remaining = @ - 1])

\* the hard cutoff of applyPenalty, due after the countdown it was set with
PenaltyCutoff ==
  /\ cutoffs > 0
  /\ penaltyTimerHandle = Null \/ cutoffs > 1
  /\ render(clearPenalty([multi EXCEPT !.cutoffs = @ - 1]))

NextPenalty ==
  \/ HandleStateUpdate
  \/ \E t \in penaltyTargets :
       /\ Len(selected) < 3
       /\ SubSeq(t, 1, Len(selected)) = selected
       /\ OnCardSelect(t[Len(selected) + 1])
  \/ ClaimSettles
  \/ PenaltyTick
  \/ PenaltyCutoff

SpecPenalty == InitPenalty /\ [][NextPenalty]_vars

\* ------------------------------------- lobby: joinGame, run more than once
\* runTransaction evaluates the transform on the value the client has, and
\* again whenever the record has changed before the result is accepted; the
\* flags alreadyInGame and rejectionReason are variables of joinGame that the
\* transform sets and never resets.

\* the game node has been removed (currentData === null)
recordRemoved == status = Null /\ DOMAIN players = {}

\* the value of the record an evaluation of the join transform depends on
joinView == <<status, players>>

\* one evaluation of the transform for client c, on the current record
evaluated(c) ==
  LET r == joinTransform(c)
  IN  [active |-> TRUE,
       alreadyInGame |-> joining[c].alreadyInGame
                           \/ (~recordRemoved /\ r.alreadyInGame),
       rejectionReason |-> IF ~recordRemoved /\ r.reason # Null
                           THEN r.reason ELSE joining[c].rejectionReason,
       seen |-> joinView,
       result |-> IF recordRemoved
                  THEN [committed |-> TRUE, exists |-> FALSE,
                        players |-> players]
                  ELSE [committed |-> r.committed, exists |-> TRUE,
                        players |-> r.players]]

\* update(players/{c}, {connected: true}): sets the one field, and creates
\* the entry when there is none
markConnected(ps, c) ==
  [p \in DOMAIN ps \cup {c} |->
     IF p # c THEN ps[p]
     ELSE IF c \in DOMAIN ps THEN [ps[c] EXCEPT !.connected = TRUE]
     ELSE [connected |-> TRUE]]

\* joinGame(gameId) is called, or its transform is run again because the
\* record is no longer the one it was evaluated on
JoinEvaluates(c) ==
  /\ page[c] = "lobby"
  /\ IF joining[c].active THEN joining[c].seen # joinView
     ELSE IF c \in DOMAIN players \/ status = Null THEN TRUE
     ELSE newcomersJoin
  /\ joining' = [joining EXCEPT ![c] = evaluated(c)]
  /\ UNCHANGED <<record, local, solo, search, penalty>>

\* the result of the last evaluation is accepted, and joinGame goes on after
\* its await: the reconnect path, the toasts, or the waiting room
JoinSettles(c) ==
  /\ joining[c].active
  /\ joining[c].seen = joinView
  /\ LET r == joining[c].result
         written == IF r.committed THEN r.players ELSE players
     IN  IF joining[c].alreadyInGame
         THEN /\ players' = markConnected(written, c)
              /\ page' = [page EXCEPT ![c] = "waiting"]
         ELSE /\ players' = written
              /\ page' = [page EXCEPT ![c] =
                            IF r.exists /\ r.committed THEN "waiting"
                            ELSE "lobby"]
  /\ lastTx' = [NoTx EXCEPT !.op = "join",
                            !.committed = joining[c].result.committed,
                            !.reason = joining[c].rejectionReason]
  /\ joining' = [joining EXCEPT ![c] = NoJoin]
  /\ UNCHANGED <<status, maxPlayers, hostId, shuffledIndices, deckPointer,
                 board, startedAt, finishedAt, winnerId, startBtnEnabled,
                 pending, busy, dealing>>
  /\ UNCHANGED <<solo, search, penalty>>

\* the host's connection drops before the game has started: the hook
\* onDisconnect(gameRef).remove() that createGame registered removes the node
HostConnectionDrops ==
  /\ status = "waiting"
  /\ page[hostId] = "waiting"
  /\ status' = Null
  /\ players' = [p \in {} |-> NewPlayer]
  /\ page' = [page EXCEPT ![hostId] = "lobby"]
  /\ startBtnEnabled' = FALSE
  /\ UNCHANGED <<maxPlayers, hostId, shuffledIndices, deckPointer, board,
                 startedAt, finishedAt, winnerId, pending, busy, dealing,
                 lastTx>>
  /\ UNCHANGED elsewhere

NextJoin ==
  \/ \E c \in Clients : JoinEvaluates(c)
  \/ \E c \in Clients : JoinSettles(c)
  \/ HostConnectionDrops
  \/ \E c \in Clients : status # Null /\ WaitingRoomSnapshot(c)
  \/ \E c \in Clients : StartGame(c)
  \/ \E c \in Clients : status # Null /\ LeaveGame(c)
  \/ \E c \in Clients : status # Null /\ OpenLobby(c)

SpecJoin == Init /\ [][NextJoin]_vars

\* ------------------------------------------------------------------- claims
claimCommitted == lastTx.op = "claim" /\ lastTx.committed
claimAborted   ==
  lastTx.op = "claim" /\ ~lastTx.committed /\ lastTx.reason = Null
setOnBoard     == hasSet(boardCards(board))

\* C1: of two claims selected on the same board, the one that reaches the
\* arbiter second (after the other has committed on some of its positions)
\* aborts and leaves the record as the first claim wrote it.
C1_LosingClaimAborts ==
  [][\A c \in Clients :
       (pending[c].active /\ pending[c].raced /\ ClaimTransaction(c))
         => UNCHANGED record]_vars

\* C2: a claim transaction that meets a record that is not playing, a
\* position outside the board, three cards that are not a Set, or a claimant
\* who is not among the players, leaves the game record unchanged.
claimMustAbort(c) ==
  \/ status # "playing"
  \/ \E n \in 1..3 : pending[c].positions[n] >= Len(board)
  \/ ~isSetAt(boardCards(board), pending[c].positions)
  \/ c \notin DOMAIN players

C2_AbortedClaimChangesNothing ==
  [][\A c \in Clients :
       (pending[c].active /\ claimMustAbort(c) /\ ClaimTransaction(c))
         => UNCHANGED record]_vars

\* a claim has just been turned down because the game had finished
C2_Witness == claimAborted /\ status = "finished"

\* C3 (as stated): the record a claim commits, when playing with cards left
\* in the deck, has a Set on the board.
C3_CommittedBoardHasSet ==
  (claimCommitted /\ status = "playing" /\ deckPointer < DeckSize)
    => setOnBoard

\* C3 (amended): a claim deals one batch of extra cards; the record it
\* commits, when playing with cards left in the deck, has a Set on the board
\* or holds at least one batch more than the base board.
C3_CommittedBoardHasSetOrExtraBatch ==
  (claimCommitted /\ status = "playing" /\ deckPointer < DeckSize)
    => (setOnBoard \/ Len(board) >= BaseBoardSize + DealSize)

\* a claim has committed a playing, setless board with cards left in the deck
C3_Witness ==
  /\ claimCommitted
  /\ status = "playing"
  /\ deckPointer < DeckSize
  /\ ~setOnBoard

\* C4: the game is never playing with the deck exhausted and no Set on the
\* board.
C4_NeverStuck ==
  ~(status = "playing" /\ deckPointer = DeckSize /\ ~setOnBoard)

\* C5: a finished game has an exhausted deck and no Set on the board.
C5_FinishedOnlyWhenExhausted ==
  status = "finished" => (deckPointer = DeckSize /\ ~setOnBoard)

\* a claim has just finished the game
C5_Witness == status = "finished" /\ claimCommitted

\* C6: in a finished game winnerId is the one player whose score is strictly
\* above every other player's, and null when the top score is shared.
leaders == {p \in DOMAIN players :
              \A q \in DOMAIN players : players[q].score <= players[p].score}

C6_WinnerIsStrictLeader ==
  status = "finished"
    => IF Cardinality(leaders) = 1 THEN winnerId \in leaders
       ELSE winnerId = Null

\* a game of three or more players has finished on a tie for the top score
\* below which another player trails
C6_Witness ==
  /\ status = "finished"
  /\ Cardinality(DOMAIN players) >= 3
  /\ Cardinality(leaders) = 2
  /\ winnerId = Null

\* C7: the board holds no card twice and only cards of
\* shuffledIndices[0 .. deckPointer).
dealtCards == {shuffledIndices[n] : n \in 1..deckPointer}

C7_BoardFromDealtPrefix ==
  /\ \A m, n \in 1..Len(board) : board[m] = board[n] => m = n
  /\ \A n \in 1..Len(board) : board[n] \in dealtCards

\* claims have replaced cards and a replenish-only deal has just added more
C7_Witness ==
  /\ lastTx.op = "deal" /\ lastTx.committed
  /\ totalScore > 0
  /\ Len(board) > BaseBoardSize

\* C8: every card is on the board, in a claimed Set or still in the deck:
\* board length + 3 * (sum of scores) + (81 - deckPointer) = 81.
C8_CardsConserved ==
  Len(board) + 3 * totalScore + (DeckSize - deckPointer) = DeckSize

\* C9: status only moves forward along waiting, playing, finished.
statusRank(s) == IF s = "waiting" THEN 0 ELSE IF s = "playing" THEN 1 ELSE 2

C9_StatusMovesForward ==
  [][statusRank(status') >= statusRank(status)]_vars

\* C10: the players map never holds more than maxPlayers entries.
C10_SeatsBounded == Cardinality(DOMAIN players) <= maxPlayers

\* the game is full and a further join has just been turned away
C10_Witness ==
  /\ lastTx = [NoTx EXCEPT !.op = "join", !.reason = "full"]
  /\ Cardinality(DOMAIN players) = maxPlayers

\* C11: a join by a player already in players succeeds whatever the status
\* and the seat count, and its transform returns the record as it is (the
\* handler then marks that player connected); a join by an absent player
\* aborts with 'started' when the status is not waiting, with 'full' when
\* the seats are taken, both without changing the record; otherwise it adds
\* exactly that player with score 0.
notPlayers == <<status, maxPlayers, hostId, shuffledIndices, deckPointer,
                board, startedAt, finishedAt, winnerId>>

joinRejected(reason) ==
  /\ UNCHANGED record
  /\ lastTx' = [NoTx EXCEPT !.op = "join", !.reason = reason]

joinOutcome(c) ==
  IF c \in DOMAIN players
  THEN /\ joinTransform(c).committed
       /\ joinTransform(c).players = players
       /\ players' = [players EXCEPT ![c].connected = TRUE]
       /\ UNCHANGED notPlayers
       /\ lastTx'.committed
  ELSE IF status # "waiting" THEN joinRejected("started")
  ELSE IF Cardinality(DOMAIN players) >= maxPlayers THEN joinRejected("full")
  ELSE /\ DOMAIN players' = DOMAIN players \cup {c}
       /\ players'[c].score = 0
       /\ \A p \in DOMAIN players : players'[p] = players[p]
       /\ UNCHANGED notPlayers
       /\ lastTx'.committed

C11_JoinOutcomes ==
  [][\A c \in Clients : JoinGame(c) => joinOutcome(c)]_vars

\* a player of a finished game whose seats are all taken has just joined
\* again
C11_Witness ==
  /\ status = "finished"
  /\ lastTx.op = "join" /\ lastTx.committed
  /\ Cardinality(DOMAIN players) >= maxPlayers

\* C12: a start changes the record only when the host invokes it on a
\* waiting record; any other start leaves status and startedAt as they are.
C12_StartOnlyFromWaiting ==
  [][\A c \in Clients :
       StartGame(c) => \/ (c = hostId /\ status = "waiting")
                       \/ (status' = status /\ startedAt' = startedAt)]_vars

\* C13: status changes from waiting to playing only when the number of
\* players equals maxPlayers.
C13_StartsOnlyWhenFull ==
  [][(status = "waiting" /\ status' = "playing")
       => Cardinality(DOMAIN players) = maxPlayers]_vars

\* C14: a replenish-only transaction changes the record only when the value
\* its transform sees is playing, has no Set on the board and has cards left
\* in the deck; it then appends exactly the next 3 entries of shuffledIndices
\* and advances deckPointer by 3, and changes nothing else.
dealtExactlyThree ==
  /\ status = "playing"
  /\ ~setOnBoard
  /\ deckPointer < DeckSize
  /\ board' = board \o <<shuffledIndices[deckPointer + 1],
                         shuffledIndices[deckPointer + 2],
                         shuffledIndices[deckPointer + 3]>>
  /\ deckPointer' = deckPointer + 3
  /\ UNCHANGED <<status, maxPlayers, hostId, shuffledIndices, players,
                 startedAt, finishedAt, winnerId>>

C14_ReplenishDealsOnlyOntoSetlessBoard ==
  [][\A c \in Clients :
       DealTransaction(c) => (UNCHANGED record \/ dealtExactlyThree)]_vars

\* of two replenish-only transactions submitted on the same setless board,
\* the first has dealt a Set onto the board and the second has just aborted
C14_Witness ==
  /\ lastTx.op = "deal" /\ ~lastTx.committed
  /\ status = "playing"
  /\ setOnBoard
  /\ Len(board) > BaseBoardSize

\* C15: whenever the record is playing with no Set on the board and cards
\* left in the deck, replenish-only transactions commit until the board holds
\* a Set or the deck is exhausted.
needsCards == status = "playing" /\ ~setOnBoard /\ deckPointer < DeckSize

C15_CardsEventuallyDealt ==
  needsCards ~> (setOnBoard \/ deckPointer = DeckSize)

\* a replenish-only transaction has just put a Set on the board
C15_Witness ==
  /\ lastTx.op = "deal" /\ lastTx.committed
  /\ status = "playing"
  /\ setOnBoard

\* C16: once the status is finished, no claim, replenish-only, join or start
\* changes the board, deckPointer, a score, the status or winnerId.
scoresUnchanged ==
  /\ DOMAIN players' = DOMAIN players
  /\ \A p \in DOMAIN players : players'[p].score = players[p].score

C16_FinishedIsReadOnly ==
  [][(/\ status = "finished"
      /\ \E c \in Clients : \/ ClaimTransaction(c)
                            \/ DealTransaction(c)
                            \/ JoinGame(c)
                            \/ StartGame(c))
       => (UNCHANGED <<board, deckPointer, status, winnerId>>
           /\ scoresUnchanged)]_vars

\* C17: a committed claim adds exactly 1 to the claimant's score and to no
\* other, and removes exactly the cards at the three submitted positions:
\* on a board of at most 12 cards with cards left in the deck they are
\* replaced in place by the next entries of shuffledIndices, taken from the
\* highest position down, otherwise they are spliced out and the other
\* cards keep their order; all that may follow is one batch of extra cards.
positionSet(ps) == {ps[1] + 1, ps[2] + 1, ps[3] + 1}

\* the n-th largest of the three positions, as an index into the board
nthHighest(ps, n) ==
  CHOOSE x \in positionSet(ps) :
    Cardinality({y \in positionSet(ps) : y > x}) = n - 1

\* the board without the cards at the three positions, order kept
survivors(b, ps) ==
  LET kept == (1..Len(b)) \ positionSet(ps)
  IN  [k \in 1..Cardinality(kept) |->
         b[CHOOSE n \in kept : Cardinality({m \in kept : m < n}) = k - 1]]

replacedInPlace(ps) ==
  /\ Len(board') >= Len(board)
  /\ \A n \in 1..3 :
       board'[nthHighest(ps, n)] = shuffledIndices[deckPointer + n]
  /\ \A n \in (1..Len(board)) \ positionSet(ps) : board'[n] = board[n]

splicedOut(ps) ==
  /\ Len(board') >= Len(board) - 3
  /\ SubSeq(board', 1, Len(board) - 3) = survivors(board, ps)

claimEffect(c, ps) ==
  /\ DOMAIN players' = DOMAIN players
  /\ players'[c].score = players[c].score + 1
  /\ \A p \in DOMAIN players \ {c} : players'[p] = players[p]
  /\ \A n \in positionSet(ps), k \in 1..Len(board') : board'[k] # board[n]
  /\ Len(board') - Len(board) \in {-3, 0, 3}
  /\ IF Len(board) <= BaseBoardSize /\ deckPointer < DeckSize
     THEN replacedInPlace(ps)
     ELSE splicedOut(ps)

C17_ClaimRemovesSelectedCards ==
  [][\A c \in Clients :
       (ClaimTransaction(c) /\ lastTx'.committed)
         => claimEffect(c, pending[c].positions)]_vars

\* the deck is exhausted and a claim has just spliced its three cards out of
\* the board
C17_Witness ==
  /\ claimCommitted
  /\ status = "playing"
  /\ Len(board) < BaseBoardSize

\* C18: when a submitted claim transaction settles, whether it committed,
\* aborted or failed with a connectivity error, the submitting client's busy
\* flag is false again and no transaction of that client is left in flight.
C18_BusyClearedOnSettle ==
  [][\A c \in Clients :
       (ClaimTransaction(c) \/ ClaimFails(c))
         => (~busy'[c] /\ ~pending'[c].active)]_vars

\* a claim has just failed with a connectivity error and every client can
\* select cards
C18_Witness ==
  /\ lastTx.op = "claim" /\ lastTx.reason = "error"
  /\ status = "playing"
  /\ \A c \in Clients : ~busy[c]

\* C19: isSet gives the same result for every order of its three
\* arguments.
C19_IsSetSymmetric ==
  [][isSetOf(board') = isSetOf(board)]_vars

\* three different cards that form a Set, passed in descending order
C19_Witness ==
  /\ Len(board) = 3
  /\ board[1] > board[2] /\ board[2] > board[3]
  /\ isSetOf(board)

\* C20: isSet is true exactly when each of color, shape, count and fill,
\* taken on its own, has three equal or three pairwise different values.
colorOf(card) == card.color
shapeOf(card) == card.shape
countOf(card) == card.count
fillOf(card)  == card.fill

sameOrDistinct(values) == Cardinality(values) \in {1, 3}

C20_IsSetIffEveryFeatureValid ==
  Len(board) = 3 =>
    (isSetOf(board) <=>
       /\ sameOrDistinct({colorOf(CANONICAL_DECK[board[n] + 1]) : n \in 1..3})
       /\ sameOrDistinct({shapeOf(CANONICAL_DECK[board[n] + 1]) : n \in 1..3})
       /\ sameOrDistinct({countOf(CANONICAL_DECK[board[n] + 1]) : n \in 1..3})
       /\ sameOrDistinct({fillOf(CANONICAL_DECK[board[n] + 1]) : n \in 1..3}))

\* three cards that agree on color, shape and count, two of which share a
\* fill the third does not have, are not a Set
C20_Witness ==
  /\ Len(board) = 3
  /\ Cardinality({colorOf(CANONICAL_DECK[board[n] + 1]) : n \in 1..3}) = 1
  /\ Cardinality({shapeOf(CANONICAL_DECK[board[n] + 1]) : n \in 1..3}) = 1
  /\ Cardinality({countOf(CANONICAL_DECK[board[n] + 1]) : n \in 1..3}) = 1
  /\ Cardinality({fillOf(CANONICAL_DECK[board[n] + 1]) : n \in 1..3}) = 2
  /\ board[1] > board[2]
  /\ ~isSetOf(board)

\* C21: findAllSets applied to the whole canonical deck returns exactly 1080
\* triplets, no two of which are the same three cards.
tripletCards(t) ==
  {cardsOf(allCards, cards)[t[1] + 1], cardsOf(allCards, cards)[t[2] + 1],
   cardsOf(allCards, cards)[t[3] + 1]}

C21_FullDeckHas1080Sets ==
  (cards = keys(DeckSize) /\ results # None)
    => /\ Len(results[1]) = 1080
       /\ Cardinality({tripletCards(results[1][p]) : p \in DOMAIN results[1]})
            = 1080

C21_Witness ==
  cards = keys(DeckSize) /\ results # None /\ Len(results[1]) = 1080

\* C22: for every array of cards, of any length, hasSet returns true exactly
\* when findAllSets returns a non-empty array.
C22_HasSetIffSomeSetFound ==
  (results # None /\ anySet # None) => (anySet[1] = (Len(results[1]) > 0))

C22_Witness ==
  /\ results # None /\ anySet # None
  /\ Len(cards) = MaxCards /\ anySet[1] /\ Len(results[1]) > 0

\* C23: triplets yields every position triple i < j < k once, in
\* lexicographic order; findAllSets returns the ones that are Sets in that
\* order; under three cards findAllSets returns nothing and hasSet is false.
lexLess(t, u) ==
  \/ t[1] < u[1]
  \/ t[1] = u[1] /\ t[2] < u[2]
  \/ t[1] = u[1] /\ t[2] = u[2] /\ t[3] < u[3]

ascending(seq) ==
  \A p \in 1..(Len(seq) - 1) : lexLess(seq[p], seq[p + 1])

\* a position triple i < j < k of an array of n cards
combination(t, n) == 0 <= t[1] /\ t[1] < t[2] /\ t[2] < t[3] /\ t[3] < n

combinationsOf(seq, n) == \A p \in DOMAIN seq : combination(seq[p], n)

\* n choose 3
choose3(n) == (n * (n - 1) * (n - 2)) \div 6

range(seq) == {seq[p] : p \in DOMAIN seq}

\* the combinations that are Sets
setCombinations(cs) ==
  {t \in (0..(Len(cs) - 1)) \X (0..(Len(cs) - 1)) \X (0..(Len(cs) - 1)) :
     combination(t, Len(cs)) /\ isSetAt(cs, t)}

\* strictly ascending combinations are pairwise different, so choose3(n) of
\* them are all of them
C23_FindAllSetsEnumeratesInOrder ==
  LET n == Len(cards)
  IN  /\ ascending(triplets(n))
      /\ combinationsOf(triplets(n), n)
      /\ Len(triplets(n)) = (IF n < 3 THEN 0 ELSE choose3(n))
      /\ results # None
           => /\ ascending(results[1])
              /\ range(results[1])
                   = setCombinations(cardsOf(allCards, cards))
      /\ n < 3 => /\ results # None => results[1] = << >>
                  /\ anySet # None => anySet[1] = FALSE

C23_Witness ==
  /\ results # None /\ Len(results[1]) >= 2
  /\ results[1][1][1] = results[1][2][1]
  /\ results[1][1][2] < Len(cards) - 2

\* C24: createDeck returns 81 pairwise different cards, the card at index
\* 27c + 9s + 3n + f being (COLORS[c], SHAPES[s], COUNTS[n], FILLS[f]), and
\* the same array on every call.
C24_CreateDeckIsCanonical ==
  allCards # << >>
    => /\ Len(allCards) = DeckSize
       /\ \A c \in 0..2, s \in 0..2, n \in 0..2, f \in 0..2 :
            allCards[27 * c + 9 * s + 3 * n + f + 1]
              = [color |-> COLORS[c + 1], shape |-> SHAPES[s + 1],
                 count |-> COUNTS[n + 1], fill |-> FILLS[f + 1]]
       /\ Cardinality(range(allCards)) = DeckSize
       /\ allCards = CANONICAL_DECK

C24_Witness ==
  allCards # << >> /\ cards = keys(DeckSize) /\ results # None

\* ------------------------------------------------------------
\* claims about play.js

\* a step of startGame: the only handler that closes the mode dialog
startGameStep == modalMode = "shown" /\ modalMode' = "hidden"

\* the board lengths startGame passes through before it reaches n cards
dealtBefore(n) ==
  {m \in BaseBoardSize..(n - 1) : (m - BaseBoardSize) % DealSize = 0}

\* C25: when startGame completes, the board is the first 12 cards popped
\* from the shuffled deck followed by whole batches of 3, each batch dealt
\* onto a board without a Set, and it has a Set or the deck is empty; the
\* pass leaves no timed deal behind and the board is not busy
C25_StartGameDealsUntilSet ==
  [][startGameStep =>
       /\ Len(board') >= BaseBoardSize
       /\ (Len(board') - BaseBoardSize) % DealSize = 0
       /\ \E d \in 1..NumDraws : deck' \o reverse(board') = shuffleDeck(d)
       /\ \A m \in dealtBefore(Len(board')) :
            ~hasSet(boardCards(SubSeq(board', 1, m)))
       /\ (hasSet(boardCards(board')) \/ deck' = << >>)
       /\ replenishing' = replenishing
       /\ busy' = FALSE
       /\ score' = 0 /\ computerScore' = 0 /\ selected' = << >>]_vars

\* a game has just started on a board that needed extra batches
C25_Witness ==
  /\ modalMode = "hidden"
  /\ score + computerScore = 0
  /\ Len(deck) + Len(board) = DeckSize
  /\ Len(board) > BaseBoardSize + DealSize
  /\ replenishing = << >> /\ flights = << >> /\ ~busy

\* the callback of a claim's flight runs
flightLandsStep == flights # << >> /\ flights' = Tail(flights)

\* the three claimed positions get the next three cards of the deck, the
\* highest position first, and every other position keeps its card
soloReplacedInPlace(ps) ==
  /\ Len(board') = Len(board)
  /\ \A n \in 1..3 : board'[nthHighest(ps, n)] = deck[Len(deck) + 1 - n]
  /\ \A n \in (1..Len(board)) \ positionSet(ps) : board'[n] = board[n]
  /\ deck' = SubSeq(deck, 1, Len(deck) - 3)

\* the three claimed positions leave the board, the rest keeps its order
soloRemoved(ps) ==
  /\ Len(board') = Len(board) - 3
  /\ board' = survivors(board, ps)
  /\ deck' = deck

\* C26: when the flight of a claimed Set lands, a board of at most 12 cards
\* with at least 3 cards in the deck gets the three claimed positions
\* replaced in place; otherwise the three cards are removed, the board
\* shrinks by 3 and the other cards keep their order
C26_ReplaceInPlaceOrRemove ==
  [][flightLandsStep =>
       IF Len(board) <= BaseBoardSize /\ Len(deck) >= DealSize
       THEN soloReplacedInPlace(flights[1].indices)
       ELSE soloRemoved(flights[1].indices)]_vars

\* the first claim of a game that started with 21 cards has been removed
C26_Witness ==
  /\ modalMode = "hidden"
  /\ score + computerScore = 1
  /\ flights = << >>
  /\ Len(board) = BaseBoardSize + 2 * DealSize
  /\ deck = SubSeq(shuffleDeck(1), 1, DeckSize - BaseBoardSize - 3 * DealSize)

\* the timeout of ensureSetOnBoard runs: it alone adds cards to a board
\* while the mode dialog stays as it is
replenishStep ==
  /\ replenishing # << >>
  /\ Len(board') > Len(board)
  /\ modalMode' = modalMode

gameOverDeclared == modalOverlay = "hidden" /\ modalOverlay' = "shown"

exhausted(d, b) == d = << >> /\ ~hasSet(boardCards(b))

\* C27: the game-over dialog is up only over an empty deck and a board
\* without a Set; it is put up only by the callback that ends a claim's
\* replenishment (the flight's callback or the last timed deal), and that
\* callback puts it up whenever it leaves the deck empty and no Set
C27_GameOverIffExhausted ==
  [][/\ modalOverlay' = "shown" => exhausted(deck', board')
     /\ gameOverDeclared =>
          /\ flightLandsStep \/ replenishStep
          /\ ~busy'
     /\ (flightLandsStep \/ replenishStep) /\ exhausted(deck', board')
          => modalOverlay' = "shown" /\ computerTimer' = "none"]_vars

\* game over after two timed deals in a row used up the deck
C27_Witness ==
  /\ modalOverlay = "shown"
  /\ exhausted(deck, board)
  /\ Len(board) = BaseBoardSize + 2 * DealSize
  /\ DeckSize = Len(board) + 3 * (score + computerScore)
  /\ replenishing = << >> /\ ~busy

\* a game has started, no dialog covers it and game over is not declared
gameActive == board # << >> /\ boardShown

\* C28: whenever input is accepted during an active game (busy = false)
\* the board has a Set; a board without a Set over a non-empty deck exists
\* only while busy is true
C28_InputOnlyOnBoardWithSet ==
  /\ gameActive /\ ~busy => hasSet(boardCards(board))
  /\ gameActive /\ ~hasSet(boardCards(board)) /\ deck # << >> => busy

\* the third card of a triple that is not a Set is clicked
wrongSelectionStep ==
  /\ Len(selected) = 2 /\ Len(selected') = 3
  /\ ~isSetAt(boardCards(board), selected')

\* the timeout of handleError runs
flashEndsStep == flashes > 0 /\ flashes' = flashes - 1

cardsAndScoresKept ==
  /\ deck' = deck /\ board' = board
  /\ score' = score /\ computerScore' = computerScore

\* C29: selecting three cards that are not a Set changes neither the deck,
\* the board nor a score and locks the input for the feedback window; when
\* the window ends the selection is empty and busy is false, with deck,
\* board and scores still unchanged
C29_WrongSelectionChangesNothing ==
  [][/\ wrongSelectionStep =>
          cardsAndScoresKept /\ busy' /\ flashes' = flashes + 1
     /\ flashEndsStep =>
          cardsAndScoresKept /\ selected' = << >> /\ ~busy']_vars

\* a solo player looks at the three flashing cards of a wrong selection
C29_Witness ==
  /\ gameMode = "solo" /\ gameActive
  /\ flashes = 1 /\ busy
  /\ Len(selected) = 3 /\ ~isSetAt(boardCards(board), selected)
  /\ flights = << >> /\ replenishing = << >>

\* the computer's timeout is pending, for its first run or for a retry
computerPending == gameMode = "vs-computer" /\ computerTimer # "none"

\* a claimed Set is on its flight to a score card, or the game is paused,
\* over, or left for the mode dialog (or the exploration leaves it)
claimedOrStopped ==
  \/ flights # << >>
  \/ paused
  \/ modalOverlay = "shown"
  \/ modalMode = "shown"
  \/ ~followed

\* C30: in vs-computer mode a pending computer move, deferred by a busy
\* board or not, is not lost: unless the game is paused, ends or is left,
\* a Set is claimed (by the computer, or by the player before it)
C30_DeferredComputerMoveIsMade == computerPending ~> claimedOrStopped

\* the computer's timeout has fired during a wrong selection's flash and
\* waits for its retry
C30_Witness ==
  /\ gameMode = "vs-computer" /\ gameActive
  /\ computerTimer = "retry"
  /\ busy /\ flashes = 1
  /\ ~paused

\* C31: in a vs-computer game that is neither over nor paused, with
\* busy = false, a computer move is scheduled, whatever pauses and resumes
\* came before.  (Stated for the games that hold all their cards and have
\* no callback pending.)
C31_ResumeRestoresComputerMove ==
  (gameMode = "vs-computer" /\ gameActive /\ intact /\ settled
     /\ ~paused /\ ~busy)
    => computerTimer # "none"

\* C32: the positions a hint has revealed (hintStep of them, three at
\* most) are positions of the current board, and the three hint positions
\* hold a Set of the current board.
C32_HintIsSetOfCurrentBoard ==
  hintStep > 0 =>
    /\ hintStep <= 3
    /\ hintSetIndices # None
    /\ \A i \in 1..3 : hintSetIndices[i] < Len(board)
    /\ isSetAt(boardCards(board), hintSetIndices)

\* C33: if no Set stays on the board for ever without a claim, by the
\* player or by the computer, every game that is under way comes to the
\* game-over dialog over an empty deck and a board without a Set, after 27
\* claims at most, unless the player opens the dialog for a new game first.
claimable == board # << >> /\ hasSet(boardCards(board))

claimed == flights # << >>

gameStarted == board # << >> /\ modalMode = "hidden"

terminated ==
  /\ modalOverlay = "shown"
  /\ exhausted(deck, board)
  /\ score + computerScore <= DeckSize \div 3

C33_GameTerminates ==
  []<>(~claimable \/ claimed)
    => (gameStarted ~> (terminated \/ modalMode = "shown"))

\* a game played to its end by the player and the computer
C33_Witness ==
  /\ terminated
  /\ gameMode = "vs-computer"
  /\ score > 0 /\ computerScore > 0
  /\ Len(deck) + Len(board) + 3 * (score + computerScore) = DeckSize

\* ------------------------------------------------ claims about the penalty
\* C34: when the snapshot of a finished game reaches a client that is
\* serving a penalty, the handling of the snapshot dismisses the penalty:
\* it leaves busy false, the board not penalized, and no countdown shown.
finishedWhilePenalized ==
  status = "playing" /\ status' = "finished" /\ penalized /\ busy

C34_FinishDismissesPenalty ==
  [][finishedWhilePenalized =>
       /\ ~busy'
       /\ ~penalized'
       /\ penaltyTimerHandle' = Null
       /\ penaltyOverlay' = "hidden" /\ penaltyBar' = "hidden"]_vars

\* ------------------------------------------- claims about stale selections
\* C35: a committed claim takes off the board the cards its claimant
\* selected: the cards at the submitted positions of the board the
\* transform meets are the cards the claimant's board showed at these
\* positions, whatever was committed since the selection.
selectedCards(c) == {pending[c].cards[n] : n \in 1..3}

takenOff(c) == {board[pending[c].positions[n] + 1] : n \in 1..3}

C35_CommitTakesSelectedCards ==
  [][\A c \in Clients :
       (pending[c].active /\ ClaimTransaction(c) /\ lastTx'.committed)
         => /\ takenOff(c) = selectedCards(c)
            /\ \A x \in selectedCards(c), k \in 1..Len(board') :
                 board'[k] # x]_vars

\* C36: deckPointer and the length of the board are multiples of 3, with
\* 12 <= deckPointer <= 81 and 12 cards or more on the board while the deck
\* has cards; a committed deal adds exactly 3 cards, and a committed claim
\* replaces its three positions in place or splices the three of them out,
\* before the batch of extra cards it may deal.
recordInThrees ==
  /\ deckPointer % 3 = 0
  /\ Len(board) % 3 = 0
  /\ BaseBoardSize <= deckPointer /\ deckPointer <= DeckSize
  /\ deckPointer < DeckSize => Len(board) >= BaseBoardSize

allReplaced(ps) ==
  /\ \/ Len(board') = Len(board) /\ deckPointer' = deckPointer + 3
     \/ Len(board') = Len(board) + 3 /\ deckPointer' = deckPointer + 6
  /\ \A n \in 1..3 : board'[ps[n] + 1] \in
       {shuffledIndices[deckPointer + k] : k \in 1..3}
  /\ \A n \in 1..Len(board) :
       n \notin {ps[k] + 1 : k \in 1..3} => board'[n] = board[n]

allSpliced(ps) ==
  /\ \A n \in 1..3, k \in 1..Len(board') : board'[k] # board[ps[n] + 1]
  /\ \/ Len(board') = Len(board) - 3 /\ deckPointer' = deckPointer
     \/ Len(board') = Len(board) /\ deckPointer' = deckPointer + 3

stepInThrees ==
  /\ \A c \in Clients :
       (pending[c].active /\ ClaimTransaction(c) /\ lastTx'.committed)
         => allReplaced(pending[c].positions)
              \/ allSpliced(pending[c].positions)
  /\ \A c \in Clients :
       (dealing[c].active /\ DealTransaction(c) /\ lastTx'.committed)
         => /\ Len(board') = Len(board) + 3
            /\ deckPointer' = deckPointer + 3
            /\ SubSeq(board', 1, Len(board)) = board

C36_RecordMovesInThrees == []recordInThrees /\ [][stepInThrees]_vars

\* a claim on a board of 15 cards has spliced its three cards out, with
\* cards left in the deck: the card dealt last has moved down to the last
\* of 12 positions
C36_Witness ==
  /\ claimCommitted
  /\ Len(board) = BaseBoardSize
  /\ deckPointer < DeckSize
  /\ board[BaseBoardSize] = shuffledIndices[deckPointer]

\* --------------------------------------------------- claims about joinGame
\* C37: joinGame takes the reconnect path only if the player is among the
\* players of the value its transform was evaluated on last, and a join
\* that settles on a record without the player, and does not add the
\* player, leaves the record without the player.
reconnects(c) == JoinSettles(c) /\ joining[c].alreadyInGame

C37_ReconnectOnlyIfPresent ==
  [][\A c \in Clients :
       /\ reconnects(c) => c \in DOMAIN players
       /\ (JoinSettles(c) /\ c \notin DOMAIN joining[c].result.players)
            => c \notin DOMAIN players']_vars

\* ------------------------------------------ claims about play.js, new games
\* C38: whenever no claim's flight is under way, the cards of deck and board
\* are pairwise distinct, and a game that has been dealt holds 81 cards in
\* deck, board and claimed Sets: deck.length + board.length
\* + 3 * (score + computerScore) = 81.
cardsDistinct ==
  /\ \A i, j \in 1..Len(board) : i # j => board[i] # board[j]
  /\ \A i, j \in 1..Len(deck) : i # j => deck[i] # deck[j]
  /\ \A i \in 1..Len(board), j \in 1..Len(deck) : board[i] # deck[j]

C38_SoloCardsConserved ==
  flights = << >> =>
    /\ cardsDistinct
    /\ board # << >> =>
         Len(deck) + Len(board) + 3 * (score + computerScore) = DeckSize

\* C39: while gameMode is solo no computer move is scheduled and the
\* computer has no score.
C39_NoComputerInSolo ==
  gameMode = "solo" =>
    /\ computerScore = 0
    /\ computerTimerHandle = Null
    /\ computerTimer = "none"

\* ---- claims about play.js, one claim at a time ----

\* a step in which a claim begins: handleSuccess and computerTakesSet count
\* the Set before the cards leave the board
claimBegins == score' > score \/ computerScore' > computerScore

\* the claims whose animation or replenishment wait has not run yet
claimsInProgress == Len(flights) + Len(replenishing)

\* C40: no claim begins while busy is true or while the animation or the
\* replenishment wait of an earlier claim is still pending, so that the
\* board mutations of two claims never interleave.
C40_ClaimsNeverInterleave ==
  [][claimBegins => ~busy /\ claimsInProgress = 0]_vars

====
